---- MODULE Spec2Model ----
(***************************************************************************)
(* Discrete-event model of the MRI department simulation.                  *)
(*                                                                         *)
(* The program is run through its drivers, and each of them ends before    *)
(* the scheduler is entered:                                               *)
(*   - HeadlessSimulation.run builds the environment, puts the magnets     *)
(*     into the pool, has manage_breaks create the six break cycles and    *)
(*     then calls patient_generator with patient_class, a keyword the      *)
(*     function does not take (GeneratorCallAsWritten): TypeError;         *)
(*   - run_simulation fails when it builds its renderer, or, with          *)
(*     config.HEADLESS set, when it calls run_generator with no_show_prob  *)
(*     (RendererAsWritten, RunGeneratorCallAsWritten): TypeError;          *)
(*   - engine.py imports MRIConfig, a class config.py does not define      *)
(*     (ImportAsWritten).                                                  *)
(* Spec and ModularSpec are these runs, step by step up to the failing     *)
(* call: env.run is never entered and no process ever runs.  The first     *)
(* engine is also run with the configuration supplied as the specification *)
(* describes it (RunWithConfiguration), the class MRIConfig being in no    *)
(* file of the sources.                                                    *)
(*                                                                         *)
(* The processes are patient_generator, patient_journey (with              *)
(* inpatient_workflow), patient_exit_process, handle_no_show_gap,          *)
(* use_washroom, the six staff_break_cycle processes of StaffManager and,  *)
(* for the modular engine, run_generator and PatientWorkflow.  Each is     *)
(* translated from its function, one action per segment: the code between  *)
(* two suspension points (yield).  The actions say what the function does  *)
(* once the scheduler runs it; no step of a driver starts a process of the *)
(* department or of the modular engine, so these actions belong to no      *)
(* next-state relation and nothing is established about them here.         *)
(*                                                                         *)
(* In the process actions virtual time is counted in ticks of a hundredth  *)
(* of a minute and moves to the next pending timeout only when no process  *)
(* can run.  They are written for config.HEADLESS = True, the value        *)
(* batch_run.execute_batch sets before its workers run HeadlessSimulation: *)
(* move_to is then instantaneous, the "while not is_at_target()" loops     *)
(* never iterate and the porter's walk to a patient in the waiting grid    *)
(* costs its one timeout of 0.01 minutes.  HeadlessSimulation.run does not *)
(* set the flag itself; with the default False the Patient of              *)
(* visuals/sprites.py never reaches a target, nothing calling its update.  *)
(*                                                                         *)
(* ResourceMonitor only samples the resources once a minute and writes     *)
(* utilisation totals; it changes nothing the processes read and is left   *)
(* out.  The durations drawn by get_time are chosen from the small sets of *)
(* Times, all inside the range random.triangular returns for the task.     *)
(***************************************************************************)
EXTENDS Integers, Sequences, FiniteSets, TLC

\* ------------------------------------------------------------------------
\* Time scale and program constants
\* ------------------------------------------------------------------------
TicksPerMinute == 100
Minutes(n) == n * TicksPerMinute
\* n hundredths of a minute.
Hundredths(n) == (n * TicksPerMinute) \div 100

PollStaging == TicksPerMinute \div 2
PollExitRoom == TicksPerMinute \div 10
PollWashroom == TicksPerMinute \div 10
PollClear == TicksPerMinute \div 2
\* The porter's walk to the patient: one timeout of 0.01 minutes.
PorterWalk == TicksPerMinute \div 100

AVG_CYCLE_TIME == 45
MAX_SCAN_TIME == 70
MagnetCount == 2
PRIORITY_INPATIENT == 0
PRIORITY_OUTPATIENT == 1
PriorityTurnover == 0
PriorityTransport == 1
PriorityCoverage == 0 - 1
NoShowWait == 15
OvertimeCap == 300
\* run_generator looks at the last 60 minutes of the shift.
GeneratorMargin == 60
HandoverDelay == 2
BreakInterval == 150
BreakSchedule == <<30, 15, 30, 15>>

\* ------------------------------------------------------------------------
\* Bounds of the exploration
\* ------------------------------------------------------------------------
\* Largest number of arrivals (p_id values) any scenario creates.
MaxArrivals == 5

Patients == 1..MaxArrivals
Magnets == {"3T", "1.5T"}
ExamTypes == {"Prostate", "Cardiac"}
NoExam == "None"
NoMagnet == "none"
NoRoom == "none"

\* ------------------------------------------------------------------------
\* Processes
\* ------------------------------------------------------------------------
Gen == <<"gen", 0>>
J(p) == <<"journey", p>>
X(p) == <<"exit", p>>
G(p) == <<"ghost", p>>
B(s) == <<"break", s>>
\* use_washroom run for patient p.
W(p) == <<"use_washroom", p>>

\* Staff members in the order manage_breaks starts their cycles.
Staff == 1..6
StaffRole(s) == <<"porter", "admin", "backup", "backup", "scan", "scan">>[s]
StaffIdx(s) == <<0, 0, 0, 1, 0, 1>>[s]

Procs == {Gen} \cup {J(p) : p \in Patients} \cup {X(p) : p \in Patients}
            \cup {G(p) : p \in Patients} \cup {B(s) : s \in Staff}
            \cup {W(p) : p \in Patients}

\* ------------------------------------------------------------------------
\* State
\* ------------------------------------------------------------------------
VARIABLES
  now,        \* env.now, in ticks
  running,    \* TRUE from env.run(until=duration) to the end of the overtime loop
  drv,        \* ticks until the driver's next env.run(until=...) returns
  pc,         \* position of every process
  timer,      \* ticks until the pending timeout of every process fires
  res,        \* users and queue of every resource
  pool,       \* magnet_pool.items
  poolWait,   \* processes waiting in magnet_pool.get()
  mag,        \* the magnet_config a process has checked out
  lastExam,   \* magnet_res.last_exam_type per magnet
  pat,        \* the Patient objects
  stats,      \* the metrics collector (SimStats)
  mgr,        \* StaffManager flags and the staff objects' busy flags
  gen,        \* local state of patient_generator
  plan,       \* the inputs of the run: what the random draws may return
  posm,       \* pos_manager.occupancy of the two sides of the waiting room
  legacy,     \* the MRISimulation object of the first engine and its patients
  hist        \* history of the run, written but never read by the program

vars == <<now, running, drv, pc, timer, res, pool, poolWait, mag, lastExam,
          pat, stats, mgr, gen, plan, posm, legacy, hist>>

\* ------------------------------------------------------------------------
\* Resources (simpy.Resource / simpy.PriorityResource)
\* ------------------------------------------------------------------------
ChangeRooms == {"change_1", "change_2", "change_3"}
Washrooms == {"washroom_1", "washroom_2"}
MagnetRes(m) == IF m = "3T" THEN "magnet_3t_res" ELSE "magnet_15t_res"
ResNames == {"porter", "backup_techs", "admin_ta", "magnet_access", "room_311",
             "magnet_3t_res", "magnet_15t_res", "break_slot",
             "magnet", "prep_rooms"}
               \cup ChangeRooms \cup Washrooms

Capacity(r) ==
  CASE r = "porter" -> 1
    [] r = "backup_techs" -> 2
    [] r = "admin_ta" -> 1
    [] r = "magnet_access" -> 2
    [] r = "room_311" -> 2
    [] r = "prep_rooms" -> 2
    [] OTHER -> 1

EmptyRes == [users |-> {}, queue |-> <<>>]

\* Position of a new request in the queue: behind every request whose
\* priority is not larger (the sort key is (priority, time, sequence), and
\* time and sequence only grow).
RECURSIVE InsertAt(_, _)
InsertAt(q, e) ==
  IF q = <<>> THEN <<e>>
  ELSE IF Head(q).prio <= e.prio THEN <<Head(q)>> \o InsertAt(Tail(q), e)
  ELSE <<e>> \o q

\* BaseResource._trigger_put with Resource._do_put: the head of the queue is
\* granted when a unit is free; at most one grant per trigger.
TriggerPut(rec, cap) ==
  IF rec.queue # <<>> /\ Cardinality(rec.users) < cap
  THEN [users |-> rec.users \cup {Head(rec.queue).who}, queue |-> Tail(rec.queue)]
  ELSE rec

\* resource.request(priority): queue the request, then trigger.
Request(rs, r, who, prio) ==
  [rs EXCEPT ![r] = TriggerPut([users |-> @.users,
                                queue |-> InsertAt(@.queue, [who |-> who, prio |-> prio,
                                                             at |-> now])],
                               Capacity(r))]

\* resource.release(request): free the unit, then trigger.
Release(rs, r, who) ==
  [rs EXCEPT ![r] = TriggerPut([users |-> @.users \ {who}, queue |-> @.queue],
                               Capacity(r))]

Count(rs, r) == Cardinality(rs[r].users)
QueueLen(rs, r) == Len(rs[r].queue)
Queued(rs, who) == \E r \in ResNames : \E i \in 1..Len(rs[r].queue) : rs[r].queue[i].who = who

\* ------------------------------------------------------------------------
\* Sampled durations (config.PROCESS_TIMES), in ticks.  A triangular sample
\* may be any value between the minimum and the maximum of its task; the
\* exploration takes the values listed here.
\* ------------------------------------------------------------------------
Times(task) ==
  CASE task = "registration" -> plan.registration
    [] task = "changing" -> {Minutes(3)}
    [] task = "change_back" -> {Minutes(3)}
    [] task = "iv_prep" -> {Minutes(2)}
    [] task = "iv_difficult" -> {Minutes(8)}
    [] task = "screening" -> {Minutes(3)}
    [] task = "washroom" -> plan.washroomTime
    [] task = "scan_setup" -> {Minutes(4)}
    [] task = "scan_duration" -> {Minutes(20)}
    [] task = "scan_exit" -> {Minutes(2)}
    [] task = "handover" -> {Minutes(2)}
    [] task = "bed_flip_fast" -> {Minutes(1), Hundredths(150)}
    [] task = "bed_flip_slow" -> {Minutes(2)}
    [] task = "settings_change" -> {Hundredths(150), Hundredths(230)}
    [] task = "holding_prep" -> {Minutes(12)}
    [] task = "bed_transfer" -> {Minutes(5)}
    [] task = "late_delay" -> {Minutes(12)}
    [] OTHER -> {Minutes(1)}

Max(a, b) == IF a >= b THEN a ELSE b

\* ------------------------------------------------------------------------
\* HeadlessSimulation.run: the state it builds
\* ------------------------------------------------------------------------
\* PositionManager: the slots of one area; slot |-> p_id, 0 for a slot that
\* is not in the occupancy dict.
Slots == 0..(MaxArrivals - 1)
NoSlot == 0 - 1
EmptyArea == [i \in Slots |-> 0]
InitPosm == [left |-> EmptyArea, right |-> EmptyArea]

\* get_grid_pos: the first slot index that is not occupied.
FirstFree(occ) == CHOOSE i \in Slots : occ[i] = 0 /\ \A j \in Slots : j < i => occ[j] # 0

\* get_grid_pos(area, p_id): the occupancy after the slot is saved.
GetGridPos(pm, area, p) == [pm EXCEPT ![area][FirstFree(pm[area])] = p]

\* release_pos(area, slot_idx), called by patient p: the slot is popped
\* whoever occupies it.
ReleasePos(pm, area, idx, p) ==
  IF idx \in Slots /\ pm[area][idx] # 0 THEN [pm EXCEPT ![area][idx] = 0] ELSE pm

\* The first engine (MRISimulation with Patient.process_flow): nothing of it
\* exists in a run of the department simulation.
NoTime == 0 - 1
NoOverride == 0 - 1
NewLegacyPatient == [state |-> "none", arrival_time |-> NoTime, delay |-> 0,
                     prep |-> 0, scan |-> 0, flip |-> 0,
                     prep_start |-> NoTime, scan_start |-> NoTime,
                     exit_time |-> NoTime]
NoLegacy == [hours |-> 0, parallel |-> FALSE, override |-> NoOverride, pid |-> 0,
             noise |-> 0, logs |-> <<>>, loc |-> [p \in Patients |-> NewLegacyPatient]]

NewPatient == [exam |-> NoExam, late |-> 0, ptype |-> "unknown", loc |-> "outside",
               room |-> NoRoom, tech |-> "none", prepTech |-> 0, hasIV |-> FALSE,
               difficult |-> FALSE, ivLong |-> FALSE,
               needs_iv |-> FALSE, is_difficult_iv |-> FALSE,
               wrLeft |-> NoSlot, wrRight |-> NoSlot]

InitStats == [arrived |-> 0, completed |-> 0, pis |-> 0, genActive |-> TRUE,
              lateArrivals |-> 0, calls |-> [p \in Patients |-> <<>>],
              magnet_start_time |-> NoTime, magnet_state |-> "idle",
              magnet_busy_time |-> 0, magnet_occupied_time |-> 0]

InitMgr == [covering |-> FALSE,
            cov |-> [i \in {0, 1} |-> FALSE],
            onBreak |-> [s \in Staff |-> FALSE],
            away |-> [s \in Staff |-> FALSE],
            backupBusy |-> [i \in {0, 1} |-> FALSE],
            lastUsed |-> [i \in {0, 1} |-> 0],
            blocks |-> [s \in Staff |-> 0]]

InitHist == [created |-> {}, ghosts |-> {}, closedAt |-> 0 - 1,
             escort |-> [p \in Patients |-> "none"],
             decided |-> [p \in Patients |-> [done |-> FALSE, held |-> FALSE,
                                               queued |-> FALSE, away |-> FALSE,
                                               backupFree |-> FALSE]],
             trace |-> [p \in Patients |-> <<>>],
             flip |-> [p \in Patients |-> [last |-> NoExam, fast |-> 0, slow |-> 0,
                                           settings |-> 0, dur |-> 0]],
             turn |-> [m \in Magnets |-> [last |-> NoExam, hot |-> FALSE, by |-> 0]],
             scanStart |-> [m \in Magnets |-> <<>>],
             phaseAt |-> [p \in Patients |-> 0],
             scanSum |-> 0, phaseSum |-> 0,
             writes |-> [m \in Magnets |-> 0],
             written |-> [p \in Patients |-> 0],
             hot |-> {},
             accessAt |-> [q \in Procs |-> 0 - 1],
             ghost |-> [p \in Patients |-> [grant |-> 0 - 1, release |-> 0 - 1]],
             cover |-> [s \in Staff |-> [seized |-> 0 - 1, posted |-> 0 - 1,
                                         left |-> 0 - 1, back |-> 0 - 1,
                                         released |-> 0 - 1]]]

\* HeadlessSimulation(settings, seed).run() has been entered (headless.py
\* 185-189) with the inputs pl: nothing is built yet.  No process exists,
\* the pool has no item, and a resource that is still to be created is
\* shown with no holder and no queue.  The position of the driver is kept
\* in pc[Gen] until the generator exists.
RunEntered(pl) ==
  /\ now = 0
  /\ running = FALSE
  /\ drv = 0
  /\ pc = [q \in Procs |-> IF q = Gen THEN "build" ELSE "none"]
  /\ timer = [q \in Procs |-> 0]
  /\ res = [r \in ResNames |-> EmptyRes]
  /\ pool = <<>>
  /\ poolWait = <<>>
  /\ mag = [q \in Procs |-> NoMagnet]
  /\ lastExam = [m \in Magnets |-> NoExam]
  /\ pat = [p \in Patients |-> NewPatient]
  /\ stats = InitStats
  /\ mgr = InitMgr
  /\ gen = [pid |-> 0]
  /\ plan = pl
  /\ posm = InitPosm
  /\ legacy = NoLegacy
  /\ hist = InitHist

\* settings['duration'], in ticks.
Duration == plan.duration

\* ------------------------------------------------------------------------
\* Scheduling
\* ------------------------------------------------------------------------
Alive(q) == pc[q] \notin {"none", "done"}
Blocked(q) == Queued(res, q) \/ (\E i \in 1..Len(poolWait) : poolWait[i] = q)
Ready(q) == Alive(q) /\ timer[q] = 0 /\ ~Blocked(q)

\* A process segment may run: the run has not ended and the driver's own
\* stop event, which is processed first at its instant, is not due.
CanRun(q, label) == running /\ drv # 0 /\ pc[q] = label /\ Ready(q)

Sleeping == {q \in Procs : Alive(q) /\ timer[q] > 0}

MinOf(S) == CHOOSE x \in S : \A y \in S : x <= y

\* env.step: with no event left at the current instant, the clock moves to
\* the earliest pending timeout.
AdvanceTime ==
  /\ running
  /\ drv > 0
  /\ \A q \in Procs : ~Ready(q)
  /\ LET d == MinOf({drv} \cup {timer[q] : q \in Sleeping})
     IN /\ now' = now + d
        /\ drv' = drv - d
        /\ timer' = [q \in Procs |-> IF q \in Sleeping THEN timer[q] - d ELSE timer[q]]
  /\ UNCHANGED <<running, pc, res, pool, poolWait, mag, lastExam, pat, stats, mgr,
                 gen, plan, legacy, posm, hist>>

\* The driver has not entered env.run and stands before the step label.
DriverAt(label) == ~running /\ now = 0 /\ pc[Gen] = label

\* The steps of a driver before its call of the generator.
DriverSteps == {"build", "pool", "breaks", "call", "import", "m_build", "m_call"}

\* headless.py 190-253: the seed, the environment, the mock renderer, the
\* collector and the resources, every resource without a holder.
BuildEnvironment ==
  /\ DriverAt("build")
  /\ pc' = [pc EXCEPT ![Gen] = "pool"]
  /\ UNCHANGED <<now, running, drv, timer, res, pool, poolWait, mag, lastExam, pat,
                 stats, mgr, gen, plan, legacy, posm, hist>>

\* The magnets in the order run() puts them into the pool.
MagnetOrder == <<"3T", "1.5T">>

\* headless.py 272-273: magnet_pool.put, the 3T first.  The store has room
\* for both, so each put is done at once.
PutMagnet ==
  /\ DriverAt("pool")
  /\ pool' = Append(pool, MagnetOrder[Len(pool) + 1])
  /\ pc' = [pc EXCEPT ![Gen] = IF Len(pool') = MagnetCount THEN "breaks" ELSE "pool"]
  /\ UNCHANGED <<now, running, drv, timer, res, poolWait, mag, lastExam, pat, stats,
                 mgr, gen, plan, legacy, posm, hist>>

\* headless.py 275-290 with manage_breaks: the staff objects and the
\* StaffManager, then env.process(staff_break_cycle(...)) for the porter,
\* the admin, the backup techs and the scan techs, in this order.  A cycle
\* that has been created has not run yet.
StartBreakCycle ==
  /\ DriverAt("breaks")
  /\ LET s == CHOOSE t \in Staff :
                 pc[B(t)] = "none" /\ \A u \in Staff : u < t => pc[B(u)] # "none"
     IN pc' = [pc EXCEPT ![B(s)] = "start",
                         ![Gen] = IF s = Cardinality(Staff) THEN "call" ELSE "breaks"]
  /\ UNCHANGED <<now, running, drv, timer, res, pool, poolWait, mag, lastExam, pat,
                 stats, mgr, gen, plan, legacy, posm, hist>>

\* headless.py 297-298 as written: the call passes patient_class, a keyword
\* patient_generator (workflow.py 770) does not take, and raises TypeError.
\* run() ends there: env.run is never entered and no process ever runs.
GeneratorCallAsWritten ==
  /\ DriverAt("call")
  /\ pc' = [pc EXCEPT ![Gen] = "none"]
  /\ UNCHANGED <<now, running, drv, timer, res, pool, poolWait, mag, lastExam, pat,
                 stats, mgr, gen, plan, legacy, posm, hist>>

\* headless.py 301-307: env.run(until=duration), then the overtime loop.
\* run() does not come this far.
DriverStep ==
  /\ running
  /\ drv = 0
  /\ IF stats.pis > 0 /\ now < Duration + Minutes(OvertimeCap)
     THEN running' = TRUE /\ drv' = Minutes(1)
     ELSE running' = FALSE /\ drv' = 0
  /\ UNCHANGED <<now, pc, timer, res, pool, poolWait, mag, lastExam, pat, stats,
                 mgr, gen, plan, legacy, posm, hist>>

\* ------------------------------------------------------------------------
\* magnet_pool (simpy.Store)
\* ------------------------------------------------------------------------
\* magnet_pool.get() called by q: the first item, or a place in the queue.
PoolGet(q) ==
  IF pool # <<>>
  THEN /\ mag' = [mag EXCEPT ![q] = Head(pool)]
       /\ pool' = Tail(pool)
       /\ poolWait' = poolWait
  ELSE /\ mag' = mag
       /\ pool' = pool
       /\ poolWait' = Append(poolWait, q)

\* magnet_pool.put(magnet_config) called by q: the item goes to the first
\* waiting getter, or to the end of the items.
PoolPut(q) ==
  IF poolWait # <<>>
  THEN /\ mag' = [mag EXCEPT ![q] = NoMagnet, ![Head(poolWait)] = mag[q]]
       /\ poolWait' = Tail(poolWait)
       /\ pool' = pool
  ELSE /\ mag' = [mag EXCEPT ![q] = NoMagnet]
       /\ pool' = Append(pool, mag[q])
       /\ poolWait' = poolWait

\* ------------------------------------------------------------------------
\* patient_generator
\* ------------------------------------------------------------------------
\* queue_burden > time_remaining, with queue_burden =
\* patients_in_system * AVG_CYCLE_TIME / magnet_count (minutes), compared
\* without rounding: both sides are multiplied by magnet_count.
BurdenExceeds(pis, t, duration) ==
  pis * Minutes(AVG_CYCLE_TIME) > MagnetCount * (duration - t)

\* The closing condition of the gatekeeper.
GateCloses(pis, t, duration) ==
  \/ BurdenExceeds(pis, t, duration)
  \/ (t > duration - Minutes(MAX_SCAN_TIME) /\ pis > 0)

\* The generator leaves its loop: the gate closes or the shift has ended.
GeneratorStops(pis, t, duration) == GateCloses(pis, t, duration) \/ t >= duration

\* The inter-arrival time drawn after arrival number n: one of the plan's
\* gaps, and after the plan's last arrival a gap that ends with the shift.
NextGaps(n) == IF n < plan.n THEN plan.gaps ELSE {Duration - now}

GenStart ==
  /\ CanRun(Gen, "start")
  /\ pc' = [pc EXCEPT ![Gen] = "tick"]
  /\ stats' = [stats EXCEPT !.genActive = TRUE]
  /\ UNCHANGED <<now, running, drv, timer, res, pool, poolWait, mag, lastExam, pat,
                 mgr, gen, plan, legacy, posm, hist>>

GenClose ==
  /\ CanRun(Gen, "tick")
  /\ GeneratorStops(stats.pis, now, Duration)
  /\ pc' = [pc EXCEPT ![Gen] = "done"]
  /\ stats' = [stats EXCEPT !.genActive = FALSE]
  /\ hist' = [hist EXCEPT !.closedAt = now]
  /\ UNCHANGED <<now, running, drv, timer, res, pool, poolWait, mag, lastExam, pat,
                 mgr, gen, plan, legacy, posm>>

GenNoShow ==
  /\ CanRun(Gen, "tick")
  /\ ~GeneratorStops(stats.pis, now, Duration)
  /\ gen.pid < plan.n
  /\ "noshow" \in plan.fates[gen.pid + 1]
  /\ \E gap \in NextGaps(gen.pid + 1) :
       /\ gen' = [gen EXCEPT !.pid = @ + 1]
       /\ pc' = [pc EXCEPT ![G(gen.pid + 1)] = "start"]
       /\ timer' = [timer EXCEPT ![Gen] = gap]
       /\ hist' = [hist EXCEPT !.ghosts = @ \cup {gen.pid + 1}]
  /\ UNCHANGED <<now, running, drv, res, pool, poolWait, mag, lastExam, pat, stats,
                 mgr, plan, legacy, posm>>

GenPatient ==
  /\ CanRun(Gen, "tick")
  /\ ~GeneratorStops(stats.pis, now, Duration)
  /\ gen.pid < plan.n
  /\ \E fate \in plan.fates[gen.pid + 1] \ {"noshow"} :
     \E exam \in plan.exams[gen.pid + 1] :
     \E late \in Times("late_delay") :
     \E gap \in NextGaps(gen.pid + 1) :
       /\ gen' = [gen EXCEPT !.pid = @ + 1]
       /\ pat' = [pat EXCEPT ![gen.pid + 1] =
                    [NewPatient EXCEPT !.exam = exam,
                                       !.late = IF fate = "late" THEN late ELSE 0]]
       /\ stats' = [stats EXCEPT !.lateArrivals = IF fate = "late" THEN @ + 1 ELSE @]
       /\ pc' = [pc EXCEPT ![J(gen.pid + 1)] = "start"]
       /\ timer' = [timer EXCEPT ![Gen] = gap]
       /\ hist' = [hist EXCEPT !.created = @ \cup {gen.pid + 1}]
  /\ UNCHANGED <<now, running, drv, res, pool, poolWait, mag, lastExam, mgr, plan, legacy, posm>>

\* ------------------------------------------------------------------------
\* handle_no_show_gap
\* ------------------------------------------------------------------------
GhostStart(p) ==
  /\ CanRun(G(p), "start")
  /\ res' = Request(res, "magnet_access", G(p), 1)
  /\ pc' = [pc EXCEPT ![G(p)] = "wait_access"]
  /\ hist' = [hist EXCEPT !.accessAt[G(p)] = now]
  /\ UNCHANGED <<now, running, drv, timer, pool, poolWait, mag, lastExam, pat, stats,
                 mgr, gen, plan, legacy, posm>>

\* The access slot is granted: take a magnet from the pool.
GhostGetMagnet(p) ==
  /\ CanRun(G(p), "wait_access")
  /\ PoolGet(G(p))
  /\ pc' = [pc EXCEPT ![G(p)] = "wait_pool"]
  /\ hist' = [hist EXCEPT !.ghost[p].grant = now]
  /\ UNCHANGED <<now, running, drv, timer, res, lastExam, pat, stats, mgr, gen, plan, legacy, posm>>

GhostIdle(p) ==
  /\ CanRun(G(p), "wait_pool")
  /\ mag[G(p)] # NoMagnet
  /\ pc' = [pc EXCEPT ![G(p)] = "idle"]
  /\ timer' = [timer EXCEPT ![G(p)] = Minutes(NoShowWait)]
  /\ UNCHANGED <<now, running, drv, res, pool, poolWait, mag, lastExam, pat, stats,
                 mgr, gen, plan, legacy, posm, hist>>

GhostRelease(p) ==
  /\ CanRun(G(p), "idle")
  /\ res' = Release(res, "magnet_access", G(p))
  /\ PoolPut(G(p))
  /\ pc' = [pc EXCEPT ![G(p)] = "done"]
  /\ hist' = [hist EXCEPT !.ghost[p].release = now]
  /\ UNCHANGED <<now, running, drv, timer, lastExam, pat, stats, mgr, gen, plan, legacy, posm>>

\* ------------------------------------------------------------------------
\* The metrics collector (SimStats)
\* ------------------------------------------------------------------------
\* log_state_change(p_id, old, new, now): the population counters, and the
\* record <<old, new>> the call carries (kept per patient, before the
\* warm-up filter).
LogStateChange(st, p, old, new) ==
  LET counted ==
        IF new = "arriving"
        THEN [st EXCEPT !.arrived = @ + 1, !.pis = @ + 1]
        ELSE IF new = "exited"
        THEN [st EXCEPT !.pis = IF @ - 1 < 0 THEN 0 ELSE @ - 1]
        ELSE st
  IN [counted EXCEPT !.calls[p] = Append(@, <<old, new>>)]

\* log_patient_finished(patient, now)
LogPatientFinished(st) == [st EXCEPT !.completed = @ + 1]

\* log_magnet_start(timestamp, is_scanning): the collector's one start time
\* and one state, whichever magnet the call is about.
LogMagnetStart(st, t, is_scanning) ==
  [st EXCEPT !.magnet_start_time = t,
             !.magnet_state = IF is_scanning THEN "scanning" ELSE "prep"]

\* log_magnet_end(timestamp): the time since the recorded start is added to
\* the occupied time, and to the busy time when the recorded state is
\* 'scanning'; without a recorded start the call does nothing.
LogMagnetEnd(st, t) ==
  IF st.magnet_start_time # NoTime
  THEN [st EXCEPT !.magnet_occupied_time = @ + (t - st.magnet_start_time),
                  !.magnet_busy_time = IF st.magnet_state = "scanning"
                                       THEN @ + (t - st.magnet_start_time) ELSE @,
                  !.magnet_start_time = NoTime,
                  !.magnet_state = "idle"]
  ELSE st

\* ------------------------------------------------------------------------
\* Helpers of HeadlessSimulation.run
\* ------------------------------------------------------------------------
\* get_free_change_room_with_index: after the shuffle, any room with a free
\* unit may come first.
FreeChangeRooms == {r \in ChangeRooms : Count(res, r) < Capacity(r)}
FreeWashrooms == {r \in Washrooms : Count(res, r) < Capacity(r)}

\* ------------------------------------------------------------------------
\* patient_journey, outpatient path
\* ------------------------------------------------------------------------
\* Step -0.1: a late patient waits out its lateness before it arrives.
JStartLate(p) ==
  /\ CanRun(J(p), "start")
  /\ pat[p].late > 0
  /\ pc' = [pc EXCEPT ![J(p)] = "late"]
  /\ timer' = [timer EXCEPT ![J(p)] = pat[p].late]
  /\ UNCHANGED <<now, running, drv, res, pool, poolWait, mag, lastExam, pat, stats,
                 mgr, gen, plan, legacy, posm, hist>>

\* Steps 0 and 1: classification, the 'arriving' record, and the request
\* for the admin desk (outpatient) or for Room 311 (inpatient).
JArrive(p) ==
  /\ CanRun(J(p), "start") \/ CanRun(J(p), "late")
  /\ pc[J(p)] = "start" => pat[p].late = 0
  /\ \E ty \in plan.types[p] :
       /\ pat' = [pat EXCEPT ![p].ptype = ty]
       /\ stats' = LogStateChange(stats, p, "None", "arriving")
       /\ IF ty = "inpatient"
          THEN /\ res' = Request(res, "room_311", J(p), 0)
               /\ pc' = [pc EXCEPT ![J(p)] = "wait_311"]
          ELSE /\ res' = Request(res, "admin_ta", J(p), 0)
               /\ pc' = [pc EXCEPT ![J(p)] = "wait_admin"]
  /\ UNCHANGED <<now, running, drv, timer, pool, poolWait, mag, lastExam, mgr, gen,
                 plan, legacy, posm, hist>>

\* Step 2: registration at the desk.
JRegister(p) ==
  /\ CanRun(J(p), "wait_admin")
  /\ stats' = LogStateChange(stats, p, "arriving", "registered")
  /\ \E d \in Times("registration") :
       timer' = [timer EXCEPT ![J(p)] = d]
  /\ pc' = [pc EXCEPT ![J(p)] = "registering"]
  /\ UNCHANGED <<now, running, drv, res, pool, poolWait, mag, lastExam, pat, mgr,
                 gen, plan, legacy, posm, hist>>

\* The condition of the transport decision: the porter is held, queued for,
\* on break or covering the admin desk.
PorterUnavailable ==
  \/ Count(res, "porter") >= Capacity("porter")
  \/ QueueLen(res, "porter") > 0
  \/ mgr.onBreak[1]
  \/ mgr.covering

\* Option A: the staff at the desk, which is the porter when it covers the
\* admin desk.
DeskEscort == IF mgr.covering THEN "desk_porter" ELSE "desk_admin"

\* What the transport decision reads.
DecisionState ==
  [done |-> TRUE,
   held |-> Count(res, "porter") >= Capacity("porter"),
   queued |-> QueueLen(res, "porter") > 0,
   away |-> mgr.onBreak[1] \/ mgr.covering,
   backupFree |-> Count(res, "backup_techs") < Capacity("backup_techs")]

\* Steps 3 and 4: the transport decision after registration.
JTransport(p) ==
  /\ CanRun(J(p), "registering")
  /\ IF PorterUnavailable
     THEN \* Option A: the staff at the desk escorts
          IF FreeChangeRooms # {}
          THEN \E r \in FreeChangeRooms :
                 /\ res' = Request(res, r, J(p), 0)
                 /\ pat' = [pat EXCEPT ![p].room = r]
                 /\ pc' = [pc EXCEPT ![J(p)] = "desk_escort"]
                 /\ timer' = timer
                 /\ hist' = [hist EXCEPT !.escort[p] = DeskEscort,
                                         !.decided[p] = DecisionState]
          ELSE /\ res' = Release(res, "admin_ta", J(p))
               /\ pat' = pat
               /\ pc' = [pc EXCEPT ![J(p)] = "staging"]
               /\ timer' = [timer EXCEPT ![J(p)] = PollStaging]
               /\ hist' = [hist EXCEPT !.escort[p] = DeskEscort,
                                       !.decided[p] = DecisionState]
     ELSE \* the admin desk is left; Branch C or the porter queue
          IF (mgr.onBreak[1] \/ mgr.covering)
               /\ Count(res, "backup_techs") < Capacity("backup_techs")
          THEN /\ res' = Request(Release(res, "admin_ta", J(p)), "backup_techs", J(p), 0)
               /\ pat' = pat
               /\ pc' = [pc EXCEPT ![J(p)] = "wait_backup_escort"]
               /\ timer' = timer
               /\ hist' = [hist EXCEPT !.decided[p] = DecisionState]
          ELSE /\ res' = Request(Release(res, "admin_ta", J(p)), "porter", J(p),
                                 PriorityTransport)
               /\ pat' = pat
               /\ pc' = [pc EXCEPT ![J(p)] = "wait_porter"]
               /\ timer' = timer
               /\ hist' = [hist EXCEPT !.escort[p] = "porter",
                                       !.decided[p] = DecisionState]
  /\ UNCHANGED <<now, running, drv, pool, poolWait, mag, lastExam, stats, mgr, gen,
                 plan, legacy, posm>>

\* Branch C, with the backup_techs unit granted: the first backup tech that
\* is not busy escorts the patient to a free change room or to the staging
\* point; with every backup tech busy the unit is given back and the
\* patient asks for the porter.
BackupEscort(p) ==
  LET free == {i \in {0, 1} : ~mgr.backupBusy[i]}
      first == IF 0 \in free THEN 0 ELSE 1
  IN IF free = {}
     THEN /\ res' = Request(Release(res, "backup_techs", J(p)), "porter", J(p),
                            PriorityTransport)
          /\ pat' = pat
          /\ mgr' = mgr
          /\ pc' = [pc EXCEPT ![J(p)] = "wait_porter"]
          /\ timer' = timer
          /\ hist' = [hist EXCEPT !.escort[p] = "porter"]
     ELSE IF FreeChangeRooms # {}
     THEN \E r \in FreeChangeRooms :
            /\ res' = Request(res, r, J(p), 0)
            /\ pat' = [pat EXCEPT ![p].room = r, ![p].prepTech = first]
            /\ mgr' = [mgr EXCEPT !.backupBusy[first] = TRUE]
            /\ pc' = [pc EXCEPT ![J(p)] = "backup_escort"]
            /\ timer' = timer
            /\ hist' = [hist EXCEPT !.escort[p] = "backup"]
     ELSE /\ res' = Release(res, "backup_techs", J(p))
          /\ pat' = pat
          /\ mgr' = mgr
          /\ pc' = [pc EXCEPT ![J(p)] = "staging"]
          /\ timer' = [timer EXCEPT ![J(p)] = PollStaging]
          /\ hist' = [hist EXCEPT !.escort[p] = "backup"]

\* The porter is granted: it walks from its home to the patient in the
\* waiting grid, which takes the loop's one timeout.
JPorterWalk(p) ==
  /\ CanRun(J(p), "wait_porter")
  /\ timer' = [timer EXCEPT ![J(p)] = PorterWalk]
  /\ pc' = [pc EXCEPT ![J(p)] = "porter_walk"]
  /\ UNCHANGED <<now, running, drv, res, pool, poolWait, mag, lastExam, pat, stats,
                 mgr, gen, plan, legacy, posm, hist>>

\* The look-ahead for a change room, with the porter at the patient's side
\* (the porter is released at the staging point) or, every half minute, at
\* the staging point of Step 5.
JSeekChangeRoom(p) ==
  /\ CanRun(J(p), "porter_walk") \/ CanRun(J(p), "staging")
       \/ CanRun(J(p), "wait_backup_escort")
  /\ IF pc[J(p)] = "wait_backup_escort"
     THEN BackupEscort(p)
     ELSE /\ IF FreeChangeRooms # {}
             THEN \E r \in FreeChangeRooms :
                    /\ res' = Request(res, r, J(p), 0)
                    /\ pat' = [pat EXCEPT ![p].room = r]
                    /\ pc' = [pc EXCEPT ![J(p)] = IF pc[J(p)] = "porter_walk"
                                                  THEN "porter_escort"
                                                  ELSE "staging_room"]
                    /\ timer' = timer
             ELSE /\ res' = IF pc[J(p)] = "porter_walk"
                            THEN Release(res, "porter", J(p)) ELSE res
                  /\ pat' = pat
                  /\ pc' = [pc EXCEPT ![J(p)] = "staging"]
                  /\ timer' = [timer EXCEPT ![J(p)] = PollStaging]
          /\ mgr' = mgr
          /\ hist' = hist
  /\ UNCHANGED <<now, running, drv, pool, poolWait, mag, lastExam, stats, gen, plan, legacy, posm>>

\* The change room is seized: the escort's resource is given back and the
\* patient changes into a gown.
JStartChanging(p) ==
  /\ CanRun(J(p), "desk_escort") \/ CanRun(J(p), "porter_escort")
       \/ CanRun(J(p), "staging_room") \/ CanRun(J(p), "backup_escort")
  /\ res' = IF pc[J(p)] = "desk_escort" THEN Release(res, "admin_ta", J(p))
            ELSE IF pc[J(p)] = "porter_escort" THEN Release(res, "porter", J(p))
            ELSE IF pc[J(p)] = "backup_escort" THEN Release(res, "backup_techs", J(p))
            ELSE res
  /\ mgr' = IF pc[J(p)] = "backup_escort"
            THEN [mgr EXCEPT !.backupBusy[pat[p].prepTech] = FALSE] ELSE mgr
  /\ \E d \in Times("changing") :
       timer' = [timer EXCEPT ![J(p)] = d]
  /\ pc' = [pc EXCEPT ![J(p)] = "changing"]
  /\ stats' = LogStateChange(stats, p, "registered", "changing")
  /\ UNCHANGED <<now, running, drv, pool, poolWait, mag, lastExam, pat, gen, plan, legacy, posm,
                 hist>>

\* The room is released and a backup tech is requested for the prep.
JChanged(p) ==
  /\ CanRun(J(p), "changing")
  /\ res' = Request(Release(res, pat[p].room, J(p)), "backup_techs", J(p), 0)
  /\ pat' = [pat EXCEPT ![p].room = NoRoom, ![p].wrLeft = FirstFree(posm.left)]
  /\ posm' = GetGridPos(posm, "left", p)
  /\ pc' = [pc EXCEPT ![J(p)] = "wait_prep"]
  /\ UNCHANGED <<now, running, drv, timer, pool, poolWait, mag, lastExam, stats, mgr,
                 gen, plan, legacy, hist>>

\* Load-balancing tech selection: the free tech used least recently, or
\* backup[0] when none is free.
PrepTech ==
  LET free == {i \in {0, 1} : ~mgr.backupBusy[i]}
  IN IF free = {} THEN 0
     ELSE IF 0 \in free /\ (1 \notin free \/ mgr.lastUsed[0] <= mgr.lastUsed[1]) THEN 0
     ELSE 1

\* Step 6: the backup tech preps the patient (IV, then the interview).
JPrep(p) ==
  /\ CanRun(J(p), "wait_prep")
  /\ mgr' = [mgr EXCEPT !.backupBusy[PrepTech] = TRUE, !.lastUsed[PrepTech] = now]
  /\ \E iv \in plan.iv[p] :
       IF iv
       THEN \E roll1 \in plan.difficult : \E roll2 \in plan.difficult :
            \E d \in Times(IF roll1 THEN "iv_difficult" ELSE "iv_prep") :
              /\ pat' = [pat EXCEPT ![p].prepTech = PrepTech, ![p].hasIV = TRUE,
                                    ![p].difficult = roll2, ![p].ivLong = roll1]
              /\ timer' = [timer EXCEPT ![J(p)] = d]
              /\ pc' = [pc EXCEPT ![J(p)] = "iv"]
       ELSE \E d \in Times("screening") :
              /\ pat' = [pat EXCEPT ![p].prepTech = PrepTech]
              /\ timer' = [timer EXCEPT ![J(p)] = d]
              /\ pc' = [pc EXCEPT ![J(p)] = "screening"]
  /\ posm' = ReleasePos(posm, "left", pat[p].wrLeft, p)
  /\ UNCHANGED <<now, running, drv, res, pool, poolWait, mag, lastExam, stats, gen,
                 plan, legacy, hist>>

JIvDone(p) ==
  /\ CanRun(J(p), "iv")
  /\ \E d \in Times("screening") :
       timer' = [timer EXCEPT ![J(p)] = d]
  /\ pc' = [pc EXCEPT ![J(p)] = "screening"]
  /\ UNCHANGED <<now, running, drv, res, pool, poolWait, mag, lastExam, pat, stats,
                 mgr, gen, plan, legacy, posm, hist>>

\* The washroom look-ahead of Step 7 for patient p, from the resources rs.
\* pt and pm are the patients and the occupancy when the look-ahead starts;
\* the buffer slot is released on the first move to the staging point.
WashroomOrPoll(p, rs, pt, pm) ==
  IF FreeWashrooms # {}
  THEN \E w \in FreeWashrooms :
         /\ res' = Request(rs, w, J(p), 0)
         /\ pat' = [pt EXCEPT ![p].room = w]
         /\ posm' = pm
         /\ pc' = [pc EXCEPT ![J(p)] = "wait_washroom"]
         /\ timer' = timer
  ELSE /\ res' = rs
       /\ pat' = pt
       /\ posm' = IF pc[J(p)] = "washroom_staging" THEN pm
                  ELSE ReleasePos(pm, "right", pt[p].wrRight, p)
       /\ pc' = [pc EXCEPT ![J(p)] = "washroom_staging"]
       /\ timer' = [timer EXCEPT ![J(p)] = PollWashroom]

\* End of the prep: 'prepped', the tech is freed, and the patient either
\* takes the washroom excursion or requests magnet access; at the washroom
\* staging point the look-ahead is repeated every tenth of a minute.
JPrepped(p) ==
  /\ CanRun(J(p), "screening") \/ CanRun(J(p), "washroom_staging")
  /\ IF pc[J(p)] = "screening"
     THEN /\ stats' = LogStateChange(stats, p, "changing", "prepped")
          /\ mgr' = [mgr EXCEPT !.backupBusy[pat[p].prepTech] = FALSE]
          /\ \E w \in plan.washroom[p] :
               IF w
               THEN WashroomOrPoll(p, Release(res, "backup_techs", J(p)),
                                   [pat EXCEPT ![p].wrRight = FirstFree(posm.right)],
                                   GetGridPos(posm, "right", p))
               ELSE /\ res' = Request(Release(res, "backup_techs", J(p)),
                                      "magnet_access", J(p), PRIORITY_OUTPATIENT)
                    /\ pat' = [pat EXCEPT ![p].wrRight = FirstFree(posm.right)]
                    /\ posm' = GetGridPos(posm, "right", p)
                    /\ pc' = [pc EXCEPT ![J(p)] = "wait_access"]
                    /\ timer' = timer
     ELSE /\ stats' = stats
          /\ mgr' = mgr
          /\ WashroomOrPoll(p, res, pat, posm)
  /\ hist' = IF pc'[J(p)] = "wait_access"
             THEN [hist EXCEPT !.accessAt[J(p)] = now] ELSE hist
  /\ UNCHANGED <<now, running, drv, pool, poolWait, mag, lastExam, gen, plan, legacy>>

JWashroom(p) ==
  /\ CanRun(J(p), "wait_washroom")
  /\ \E d \in Times("washroom") :
       timer' = [timer EXCEPT ![J(p)] = d]
  /\ pc' = [pc EXCEPT ![J(p)] = "washroom"]
  /\ posm' = ReleasePos(posm, "right", pat[p].wrRight, p)
  /\ UNCHANGED <<now, running, drv, res, pool, poolWait, mag, lastExam, pat, stats,
                 mgr, gen, plan, legacy, hist>>

JWashroomDone(p) ==
  /\ CanRun(J(p), "washroom")
  /\ res' = Request(Release(res, pat[p].room, J(p)), "magnet_access", J(p),
                    PRIORITY_OUTPATIENT)
  /\ pat' = [pat EXCEPT ![p].room = NoRoom, ![p].wrRight = FirstFree(posm.right)]
  /\ posm' = GetGridPos(posm, "right", p)
  /\ pc' = [pc EXCEPT ![J(p)] = "wait_access"]
  /\ hist' = [hist EXCEPT !.accessAt[J(p)] = now]
  /\ UNCHANGED <<now, running, drv, timer, pool, poolWait, mag, lastExam, stats, mgr,
                 gen, plan, legacy>>

\* ------------------------------------------------------------------------
\* use_washroom (workflow.py 137-164).  No function of the sources calls
\* it, so no action brings W(p) to "start".
\* ------------------------------------------------------------------------
\* The washroom W(p) has asked for or holds.
WashroomOf(p) ==
  CHOOSE w \in Washrooms :
    \/ W(p) \in res[w].users
    \/ \E i \in 1..Len(res[w].queue) : res[w].queue[i].who = W(p)

\* random.choice([1, 2]) and the request: the washroom is not tested for
\* being free, the request queues when it is held.
UseWashroom(p) ==
  /\ CanRun(W(p), "start")
  /\ \E w \in Washrooms : res' = Request(res, w, W(p), 0)
  /\ pc' = [pc EXCEPT ![W(p)] = "wait_washroom"]
  /\ UNCHANGED <<now, running, drv, timer, pool, poolWait, mag, lastExam, pat, stats,
                 mgr, gen, plan, legacy, posm, hist>>

\* The washroom is granted: the move, then the washroom time.
UseWashroomGranted(p) ==
  /\ CanRun(W(p), "wait_washroom")
  /\ \E d \in Times("washroom") :
       timer' = [timer EXCEPT ![W(p)] = d]
  /\ pc' = [pc EXCEPT ![W(p)] = "washroom"]
  /\ UNCHANGED <<now, running, drv, res, pool, poolWait, mag, lastExam, pat, stats,
                 mgr, gen, plan, legacy, posm, hist>>

\* End of the with block: the washroom is released, and the patient is
\* moved back to return_pos.  No grid position is taken or released.
UseWashroomDone(p) ==
  /\ CanRun(W(p), "washroom")
  /\ res' = Release(res, WashroomOf(p), W(p))
  /\ pc' = [pc EXCEPT ![W(p)] = "done"]
  /\ UNCHANGED <<now, running, drv, timer, pool, poolWait, mag, lastExam, pat, stats,
                 mgr, gen, plan, legacy, posm, hist>>

\* ------------------------------------------------------------------------
\* Scan entry (shared by patient_journey and inpatient_workflow)
\* ------------------------------------------------------------------------
PriorityOf(p) == IF pat[p].ptype = "inpatient" THEN PRIORITY_INPATIENT
                 ELSE PRIORITY_OUTPATIENT

\* The magnet-access slot is granted: take a magnet from the pool.
JGetMagnet(p) ==
  /\ CanRun(J(p), "wait_access")
  /\ PoolGet(J(p))
  /\ pc' = [pc EXCEPT ![J(p)] = "wait_pool"]
  /\ UNCHANGED <<now, running, drv, timer, res, lastExam, pat, stats, mgr, gen, plan, legacy, posm,
                 hist>>

\* The magnet is checked out: seize its own resource.
JSeizeMagnet(p) ==
  /\ CanRun(J(p), "wait_pool")
  /\ mag[J(p)] # NoMagnet
  /\ res' = Request(res, MagnetRes(mag[J(p)]), J(p), PriorityOf(p))
  /\ pc' = [pc EXCEPT ![J(p)] = "wait_magnet"]
  /\ UNCHANGED <<now, running, drv, timer, pool, poolWait, mag, lastExam, pat, stats,
                 mgr, gen, plan, legacy, posm, hist>>

TechIdx(m) == IF m = "3T" THEN 0 ELSE 1

\* The backup tech that covers scan tech idx.
CoverTech(idx) == idx % 2

\* patient_journey: the scan tech serving magnet m (staff_on_break lookup).
ScanTechOutpatient(m) ==
  IF mgr.onBreak[5 + TechIdx(m)] THEN "backup" ELSE "scan"

\* inpatient_workflow: the scan tech serving magnet m (scan_coverage_status).
ScanTechInpatient(m) ==
  IF mgr.cov[TechIdx(m)] THEN "backup" ELSE "scan"

\* scan_tech.busy = flag for the tech serving magnet m: the scan techs'
\* own flags are read by nobody, the covering backup tech's flag is the one
\* the prep step reads.
SetScanTechBusy(mg, tech, m, flag) ==
  IF tech = "backup" THEN [mg EXCEPT !.backupBusy[CoverTech(TechIdx(m))] = flag]
  ELSE mg

\* Step 8c: the outpatient walks in; 'scanning'; setup phase starts.
JEnterMagnet(p) ==
  /\ CanRun(J(p), "wait_magnet")
  /\ pat[p].ptype = "outpatient"
  /\ pat' = [pat EXCEPT ![p].loc = "magnet", ![p].tech = ScanTechOutpatient(mag[J(p)])]
  /\ mgr' = SetScanTechBusy(mgr, ScanTechOutpatient(mag[J(p)]), mag[J(p)], TRUE)
  /\ stats' = LogMagnetStart(LogStateChange(stats, p, "prepped", "scanning"), now, FALSE)
  /\ \E d \in Times("scan_setup") :
       timer' = [timer EXCEPT ![J(p)] = d]
  /\ pc' = [pc EXCEPT ![J(p)] = "setup"]
  /\ hist' = [hist EXCEPT !.trace[p] = Append(@, "entered"),
                          !.scanStart[mag[J(p)]] = Append(@, p),
                          !.phaseAt[p] = now]
  /\ posm' = ReleasePos(posm, "right", pat[p].wrRight, p)
  /\ UNCHANGED <<now, running, drv, res, pool, poolWait, mag, lastExam, gen,
                 plan, legacy>>

\* The setup is over: its time is logged and the scan starts.
JSetupDone(p) ==
  /\ CanRun(J(p), "setup")
  /\ stats' = LogMagnetStart(LogMagnetEnd(stats, now), now, TRUE)
  /\ \E d \in Times("scan_duration") :
       timer' = [timer EXCEPT ![J(p)] = d]
  /\ pc' = [pc EXCEPT ![J(p)] = "scan"]
  /\ hist' = [hist EXCEPT !.phaseAt[p] = now,
                          !.phaseSum = @ + (now - hist.phaseAt[p])]
  /\ UNCHANGED <<now, running, drv, res, pool, poolWait, mag, lastExam, pat,
                 mgr, gen, plan, legacy, posm>>

\* The scan is over: its time is logged and the exit phase starts.
JScanDone(p) ==
  /\ CanRun(J(p), "scan")
  /\ stats' = LogMagnetStart(LogMagnetEnd(stats, now), now, FALSE)
  /\ \E d \in Times("scan_exit") :
       timer' = [timer EXCEPT ![J(p)] = d]
  /\ pc' = [pc EXCEPT ![J(p)] = "scan_exit"]
  /\ hist' = [hist EXCEPT !.phaseAt[p] = now,
                          !.scanSum = @ + (now - hist.phaseAt[p]),
                          !.phaseSum = @ + (now - hist.phaseAt[p])]
  /\ UNCHANGED <<now, running, drv, res, pool, poolWait, mag, lastExam, pat,
                 mgr, gen, plan, legacy, posm>>

\* The fork: the porter is requested for the bed flip (priority 0) and the
\* exit continuation is started as a process of its own.
JFork(p) ==
  /\ CanRun(J(p), "scan_exit")
  /\ stats' = LogMagnetEnd(stats, now)
  /\ res' = Request(res, "porter", J(p), PriorityTurnover)
  /\ pc' = [pc EXCEPT ![J(p)] = "wait_flip", ![X(p)] = "start"]
  /\ hist' = [hist EXCEPT !.phaseSum = @ + (now - hist.phaseAt[p])]
  /\ UNCHANGED <<now, running, drv, timer, pool, poolWait, mag, lastExam, pat,
                 mgr, gen, plan, legacy, posm>>

\* The SMED condition of the bed flip of p on the magnet it holds.
IsSameExam(p) == lastExam[mag[J(p)]] = pat[p].exam

\* The duration of the bed flip from its samples.
FlipTime(same, fast, slow, settings) == IF same THEN fast ELSE Max(slow, settings)

\* The patient is clear of the scan room.
RoomClear(p) == pat[p].loc # "magnet"

\* Step 10: with the porter granted the flip is logged as started; then
\* wait until the patient is clear of the room, and clean: fast flip or
\* slow flip.
JFlipStart(p) ==
  /\ CanRun(J(p), "wait_flip") \/ CanRun(J(p), "clear_poll")
  /\ stats' = IF pc[J(p)] = "wait_flip" THEN LogMagnetStart(stats, now, FALSE)
              ELSE stats
  /\ IF ~RoomClear(p)
     THEN /\ timer' = [timer EXCEPT ![J(p)] = PollClear]
          /\ pc' = [pc EXCEPT ![J(p)] = "clear_poll"]
          /\ hist' = hist
     ELSE \E fast \in Times("bed_flip_fast") :
          \E slow \in Times("bed_flip_slow") :
          \E settings \in Times("settings_change") :
            /\ timer' = [timer EXCEPT ![J(p)] =
                           FlipTime(IsSameExam(p), fast, slow, settings)]
            /\ pc' = [pc EXCEPT ![J(p)] = "flip"]
            /\ hist' = [hist EXCEPT
                          !.trace[p] = Append(@, "clean_start"),
                          !.flip[p] = [last |-> lastExam[mag[J(p)]],
                                       fast |-> IF IsSameExam(p) THEN fast ELSE 0,
                                       slow |-> IF IsSameExam(p) THEN 0 ELSE slow,
                                       settings |-> IF IsSameExam(p) THEN 0 ELSE settings,
                                       dur |-> FlipTime(IsSameExam(p), fast, slow, settings)],
                          !.turn[mag[J(p)]] = [last |-> lastExam[mag[J(p)]],
                                               hot |-> IsSameExam(p), by |-> p],
                          !.hot = IF IsSameExam(p) THEN @ \cup {p} ELSE @]
  /\ UNCHANGED <<now, running, drv, res, pool, poolWait, mag, lastExam, pat,
                 mgr, gen, plan, legacy, posm>>

\* End of the flip: last_exam_type is written and the flip's time logged;
\* the porter is released, the serving tech's busy flag is cleared, the
\* magnet's resource and the access slot are released and the magnet is put
\* back.
JFlipDone(p) ==
  /\ CanRun(J(p), "flip")
  /\ lastExam' = [lastExam EXCEPT ![mag[J(p)]] = pat[p].exam]
  /\ res' = Release(Release(Release(res, "porter", J(p)),
                            MagnetRes(mag[J(p)]), J(p)),
                    "magnet_access", J(p))
  /\ PoolPut(J(p))
  /\ stats' = LogMagnetEnd(stats, now)
  /\ mgr' = SetScanTechBusy(mgr, pat[p].tech, mag[J(p)], FALSE)
  /\ pc' = [pc EXCEPT ![J(p)] = "done"]
  /\ hist' = [hist EXCEPT !.trace[p] = @ \o <<"turnover_end", "returned">>,
                          !.flip[p] = InitHist.flip[p],
                          !.writes[mag[J(p)]] = @ + 1,
                          !.written[p] = @ + 1]
  /\ UNCHANGED <<now, running, drv, timer, pat, gen, plan, legacy, posm>>

\* ------------------------------------------------------------------------
\* patient_exit_process
\* ------------------------------------------------------------------------
\* To the change staging point, then poll for a free change room.
XSeekRoom(p) ==
  /\ CanRun(X(p), "start") \/ CanRun(X(p), "poll")
  /\ IF FreeChangeRooms # {}
     THEN \E r \in FreeChangeRooms :
            /\ res' = Request(res, r, X(p), 0)
            /\ pat' = [pat EXCEPT ![p].loc = "staging", ![p].room = r]
            /\ pc' = [pc EXCEPT ![X(p)] = "wait_room"]
            /\ timer' = timer
     ELSE /\ res' = res
          /\ pat' = [pat EXCEPT ![p].loc = "staging"]
          /\ pc' = [pc EXCEPT ![X(p)] = "poll"]
          /\ timer' = [timer EXCEPT ![X(p)] = PollExitRoom]
  /\ hist' = IF pc[X(p)] = "start"
             THEN [hist EXCEPT !.trace[p] = Append(@, "left_room")]
             ELSE hist
  /\ UNCHANGED <<now, running, drv, pool, poolWait, mag, lastExam, stats, mgr, gen,
                 plan, legacy, posm>>

XChangeBack(p) ==
  /\ CanRun(X(p), "wait_room")
  /\ stats' = LogStateChange(stats, p, "scanning", "changing")
  /\ \E d \in Times("change_back") :
       timer' = [timer EXCEPT ![X(p)] = d]
  /\ pc' = [pc EXCEPT ![X(p)] = "changing"]
  /\ UNCHANGED <<now, running, drv, res, pool, poolWait, mag, lastExam, pat, mgr, gen,
                 plan, legacy, posm, hist>>

\* The room is released, the patient walks out: 'exited' and finished.
XLeave(p) ==
  /\ CanRun(X(p), "changing")
  /\ res' = Release(res, pat[p].room, X(p))
  /\ pat' = [pat EXCEPT ![p].loc = "exit", ![p].room = NoRoom]
  /\ stats' = LogPatientFinished(LogStateChange(stats, p, "changing", "exited"))
  /\ pc' = [pc EXCEPT ![X(p)] = "done"]
  /\ hist' = [hist EXCEPT !.trace[p] = Append(@, "exited")]
  /\ UNCHANGED <<now, running, drv, timer, pool, poolWait, mag, lastExam, mgr, gen,
                 plan, legacy, posm>>

\* ------------------------------------------------------------------------
\* inpatient_workflow
\* ------------------------------------------------------------------------
\* In Room 311: 'prepped' at once, then the holding prep.
IHold(p) ==
  /\ CanRun(J(p), "wait_311")
  /\ stats' = LogStateChange(stats, p, "arriving", "prepped")
  /\ pat' = [pat EXCEPT ![p].loc = "room_311"]
  /\ \E d \in Times("holding_prep") :
       timer' = [timer EXCEPT ![J(p)] = d]
  /\ pc' = [pc EXCEPT ![J(p)] = "holding"]
  /\ UNCHANGED <<now, running, drv, res, pool, poolWait, mag, lastExam, mgr, gen,
                 plan, legacy, posm, hist>>

\* Step 4a: request magnet access with the inpatient priority.
IRequestMagnet(p) ==
  /\ CanRun(J(p), "holding")
  /\ res' = Request(res, "magnet_access", J(p), PRIORITY_INPATIENT)
  /\ pc' = [pc EXCEPT ![J(p)] = "wait_access"]
  /\ hist' = [hist EXCEPT !.accessAt[J(p)] = now]
  /\ UNCHANGED <<now, running, drv, timer, pool, poolWait, mag, lastExam, pat, stats,
                 mgr, gen, plan, legacy, posm>>

\* Step 5: bed transfer to the magnet.
ITransfer(p) ==
  /\ CanRun(J(p), "wait_magnet")
  /\ pat[p].ptype = "inpatient"
  /\ pat' = [pat EXCEPT ![p].loc = "magnet"]
  /\ \E d \in Times("bed_transfer") :
       timer' = [timer EXCEPT ![J(p)] = d]
  /\ pc' = [pc EXCEPT ![J(p)] = "transfer"]
  /\ UNCHANGED <<now, running, drv, res, pool, poolWait, mag, lastExam, stats, mgr,
                 gen, plan, legacy, posm, hist>>

\* Step 6: the scan.
IScanStart(p) ==
  /\ CanRun(J(p), "transfer")
  /\ pat' = [pat EXCEPT ![p].tech = ScanTechInpatient(mag[J(p)])]
  /\ mgr' = SetScanTechBusy(mgr, ScanTechInpatient(mag[J(p)]), mag[J(p)], TRUE)
  /\ stats' = LogMagnetStart(LogStateChange(stats, p, "prepped", "scanning"), now, TRUE)
  /\ \E d \in Times("scan_duration") :
       timer' = [timer EXCEPT ![J(p)] = d]
  /\ pc' = [pc EXCEPT ![J(p)] = "inpatient_scan"]
  /\ hist' = [hist EXCEPT !.scanStart[mag[J(p)]] = Append(@, p),
                          !.phaseAt[p] = now]
  /\ UNCHANGED <<now, running, drv, res, pool, poolWait, mag, lastExam, gen,
                 plan, legacy, posm>>

\* Step 7: the scan's time is logged and the porter is requested to move
\* the patient out.
IScanDone(p) ==
  /\ CanRun(J(p), "inpatient_scan")
  /\ stats' = LogMagnetEnd(stats, now)
  /\ res' = Request(res, "porter", J(p), PriorityTurnover)
  /\ pc' = [pc EXCEPT ![J(p)] = "wait_egress"]
  /\ hist' = [hist EXCEPT !.scanSum = @ + (now - hist.phaseAt[p]),
                          !.phaseSum = @ + (now - hist.phaseAt[p])]
  /\ UNCHANGED <<now, running, drv, timer, pool, poolWait, mag, lastExam, pat,
                 mgr, gen, plan, legacy, posm>>

\* The porter escorts the patient out: 'exited', finished, the serving
\* tech's busy flag is cleared and every resource of the workflow is given
\* back.
IExit(p) ==
  /\ CanRun(J(p), "wait_egress")
  /\ stats' = LogPatientFinished(LogStateChange(stats, p, "scanning", "exited"))
  /\ pat' = [pat EXCEPT ![p].loc = "exit"]
  /\ res' = Release(Release(Release(res, "porter", J(p)),
                            MagnetRes(mag[J(p)]), J(p)),
                    "magnet_access", J(p))
  /\ PoolPut(J(p))
  /\ mgr' = SetScanTechBusy(mgr, pat[p].tech, mag[J(p)], FALSE)
  /\ pc' = [pc EXCEPT ![J(p)] = "put"]
  /\ hist' = [hist EXCEPT !.trace[p] = Append(@, "exited")]
  /\ UNCHANGED <<now, running, drv, timer, lastExam, gen, plan, legacy, posm>>

\* The put is done: the workflow leaves the 'with' block of Room 311.
ILeave311(p) ==
  /\ CanRun(J(p), "put")
  /\ res' = Release(res, "room_311", J(p))
  /\ pc' = [pc EXCEPT ![J(p)] = "done"]
  /\ UNCHANGED <<now, running, drv, timer, pool, poolWait, mag, lastExam, pat, stats,
                 mgr, gen, plan, legacy, posm, hist>>

\* ------------------------------------------------------------------------
\* StaffManager.staff_break_cycle
\* ------------------------------------------------------------------------
StartDelay(role) ==
  CASE role = "admin" -> 30
    [] role = "backup" -> 60
    [] role = "scan" -> 90
    [] role = "porter" -> 120

\* The initial stagger.
BStart(s) ==
  /\ CanRun(B(s), "start")
  /\ timer' = [timer EXCEPT ![B(s)] = Minutes(StartDelay(StaffRole(s)) + StaffIdx(s) * 20)]
  /\ pc' = [pc EXCEPT ![B(s)] = "delay"]
  /\ UNCHANGED <<now, running, drv, res, pool, poolWait, mag, lastExam, pat, stats,
                 mgr, gen, plan, legacy, posm, hist>>

\* Top of the loop over the schedule: the next block requests the break
\* slot; after the last block the cycle ends.
BRequestSlot(s) ==
  /\ CanRun(B(s), "delay") \/ CanRun(B(s), "interval")
  /\ IF mgr.blocks[s] < Len(BreakSchedule)
     THEN /\ res' = Request(res, "break_slot", B(s), 0)
          /\ pc' = [pc EXCEPT ![B(s)] = "wait_slot"]
     ELSE /\ res' = res
          /\ pc' = [pc EXCEPT ![B(s)] = "done"]
  /\ UNCHANGED <<now, running, drv, timer, pool, poolWait, mag, lastExam, pat, stats,
                 mgr, gen, plan, legacy, posm, hist>>

\* The break slot is granted: staff_on_break is set and the coverage for
\* the role is requested; the porter needs none and leaves at once.
BBegin(s) ==
  /\ CanRun(B(s), "wait_slot")
  /\ IF StaffRole(s) = "admin"
     THEN /\ mgr' = [mgr EXCEPT !.onBreak[s] = TRUE, !.covering = TRUE]
          /\ res' = Request(res, "porter", B(s), PriorityCoverage)
          /\ pc' = [pc EXCEPT ![B(s)] = "wait_cover"]
          /\ timer' = timer
     ELSE IF StaffRole(s) = "scan"
     THEN /\ mgr' = [mgr EXCEPT !.onBreak[s] = TRUE, !.cov[StaffIdx(s)] = TRUE]
          /\ res' = Request(res, "backup_techs", B(s), 0)
          /\ pc' = [pc EXCEPT ![B(s)] = "wait_cover"]
          /\ timer' = timer
     ELSE IF StaffRole(s) = "backup"
     THEN /\ mgr' = [mgr EXCEPT !.onBreak[s] = TRUE]
          /\ res' = Request(res, "backup_techs", B(s), 0)
          /\ pc' = [pc EXCEPT ![B(s)] = "wait_cover"]
          /\ timer' = timer
     ELSE /\ mgr' = [mgr EXCEPT !.onBreak[s] = TRUE, !.away[s] = TRUE]
          /\ res' = res
          /\ pc' = [pc EXCEPT ![B(s)] = "break"]
          /\ timer' = [timer EXCEPT ![B(s)] = Minutes(BreakSchedule[mgr.blocks[s] + 1])]
  /\ UNCHANGED <<now, running, drv, pool, poolWait, mag, lastExam, pat, stats, gen,
                 plan, legacy, posm, hist>>

\* The coverage is seized.  Admin and backup leave for the break; for a scan
\* tech the backup tech is locked and moved to the station and the
\* hand-over delay starts.
BCovered(s) ==
  /\ CanRun(B(s), "wait_cover")
  /\ IF StaffRole(s) = "scan"
     THEN /\ mgr' = [mgr EXCEPT !.backupBusy[CoverTech(StaffIdx(s))] = TRUE]
          /\ timer' = [timer EXCEPT ![B(s)] = Minutes(HandoverDelay)]
          /\ pc' = [pc EXCEPT ![B(s)] = "handover"]
          /\ hist' = [hist EXCEPT !.cover[s] = [seized |-> now, posted |-> now,
                                                left |-> 0 - 1, back |-> 0 - 1,
                                                released |-> 0 - 1]]
     ELSE /\ mgr' = [mgr EXCEPT !.away[s] = TRUE]
          /\ timer' = [timer EXCEPT ![B(s)] = Minutes(BreakSchedule[mgr.blocks[s] + 1])]
          /\ pc' = [pc EXCEPT ![B(s)] = "break"]
          /\ hist' = [hist EXCEPT !.cover[s] = [seized |-> now, posted |-> 0 - 1,
                                                left |-> now, back |-> 0 - 1,
                                                released |-> 0 - 1]]
  /\ UNCHANGED <<now, running, drv, res, pool, poolWait, mag, lastExam, pat, stats,
                 gen, plan, legacy, posm>>

\* The hand-over delay is over: the scan tech leaves for the break.
BHandover(s) ==
  /\ CanRun(B(s), "handover")
  /\ mgr' = [mgr EXCEPT !.away[s] = TRUE]
  /\ timer' = [timer EXCEPT ![B(s)] = Minutes(BreakSchedule[mgr.blocks[s] + 1])]
  /\ pc' = [pc EXCEPT ![B(s)] = "break"]
  /\ hist' = [hist EXCEPT !.cover[s].left = now]
  /\ UNCHANGED <<now, running, drv, res, pool, poolWait, mag, lastExam, pat, stats,
                 gen, plan, legacy, posm>>

\* End of the block: the coverage has been reverted (rs), the break slot is
\* released and the wait for the next block starts.
EndBlock(s, rs) ==
  /\ res' = Release(rs, "break_slot", B(s))
  /\ timer' = [timer EXCEPT ![B(s)] = Minutes(BreakInterval)]
  /\ pc' = [pc EXCEPT ![B(s)] = "interval"]

\* End of the break: staff_on_break is cleared and the staff member is back
\* home.  A scan tech then waits the hand-over delay; the other roles revert
\* their coverage, leave the break slot and wait for the next block.
BBreakEnd(s) ==
  /\ CanRun(B(s), "break")
  /\ IF StaffRole(s) = "scan"
     THEN /\ mgr' = [mgr EXCEPT !.onBreak[s] = FALSE, !.away[s] = FALSE]
          /\ res' = res
          /\ timer' = [timer EXCEPT ![B(s)] = Minutes(HandoverDelay)]
          /\ pc' = [pc EXCEPT ![B(s)] = "handback"]
     ELSE IF StaffRole(s) = "admin"
     THEN /\ mgr' = [mgr EXCEPT !.onBreak[s] = FALSE, !.away[s] = FALSE,
                                !.covering = FALSE, !.blocks[s] = @ + 1]
          /\ EndBlock(s, Release(res, "porter", B(s)))
     ELSE IF StaffRole(s) = "backup"
     THEN /\ mgr' = [mgr EXCEPT !.onBreak[s] = FALSE, !.away[s] = FALSE,
                                !.blocks[s] = @ + 1]
          /\ EndBlock(s, Release(res, "backup_techs", B(s)))
     ELSE /\ mgr' = [mgr EXCEPT !.onBreak[s] = FALSE, !.away[s] = FALSE,
                                !.blocks[s] = @ + 1]
          /\ EndBlock(s, res)
  /\ hist' = [hist EXCEPT !.cover[s].back = now,
                          !.cover[s].released = IF StaffRole(s) = "scan" THEN @ ELSE now]
  /\ UNCHANGED <<now, running, drv, pool, poolWait, mag, lastExam, pat, stats, gen,
                 plan, legacy, posm>>

\* The scan tech is back in command: the coverage flag is cleared, the
\* backup tech is unlocked and its unit released.
BHandback(s) ==
  /\ CanRun(B(s), "handback")
  /\ mgr' = [mgr EXCEPT !.cov[StaffIdx(s)] = FALSE,
                        !.backupBusy[CoverTech(StaffIdx(s))] = FALSE,
                        !.blocks[s] = @ + 1]
  /\ EndBlock(s, Release(res, "backup_techs", B(s)))
  /\ hist' = [hist EXCEPT !.cover[s].released = now]
  /\ UNCHANGED <<now, running, drv, pool, poolWait, mag, lastExam, pat, stats, gen,
                 plan, legacy, posm>>

\* ------------------------------------------------------------------------
\* The inputs of a run: the settings and what the random draws may return
\* ------------------------------------------------------------------------
\* A crowd at the magnets: an inpatient followed by no-shows, three minutes
\* apart.
PlanCrowd ==
  [n |-> MaxArrivals, duration |-> Minutes(120), gaps |-> {Minutes(3)},
   fates |-> [p \in Patients |-> IF p = 1 THEN {"normal"} ELSE {"noshow"}],
   types |-> [p \in Patients |-> {"inpatient"}],
   exams |-> [p \in Patients |-> {"Prostate"}],
   iv |-> [p \in Patients |-> {FALSE}], difficult |-> {FALSE},
   washroom |-> [p \in Patients |-> {FALSE}],
   registration |-> {Minutes(3)}, washroomTime |-> {Minutes(2)}]

\* Outpatients far enough apart to take the two magnets in turn, so that the
\* first, the third and the fifth are scanned on the same magnet; the last
\* one may come for another protocol.
PlanTurnover ==
  [n |-> MaxArrivals, duration |-> Minutes(300), gaps |-> {Minutes(45)},
   fates |-> [p \in Patients |-> {"normal"}],
   types |-> [p \in Patients |-> {"outpatient"}],
   exams |-> [p \in Patients |-> IF p >= 5 THEN ExamTypes ELSE {"Prostate"}],
   iv |-> [p \in Patients |-> {FALSE}], difficult |-> {FALSE},
   washroom |-> [p \in Patients |-> {FALSE}],
   registration |-> {Minutes(3)}, washroomTime |-> {Minutes(2)}]

\* A shift that reaches the first breaks, with a mixed population.
PlanBreaks ==
  [n |-> MaxArrivals, duration |-> Minutes(160), gaps |-> {Minutes(30)},
   fates |-> [p \in Patients |-> IF p = 1 THEN {"normal", "late"}
                                 ELSE IF p = 3 THEN {"normal", "noshow"}
                                 ELSE {"normal"}],
   types |-> [p \in Patients |-> IF p % 2 = 0 THEN {"outpatient", "inpatient"}
                                 ELSE {"outpatient"}],
   exams |-> [p \in Patients |-> IF p < 3 THEN {"Prostate"}
                                 ELSE IF p = 3 THEN ExamTypes
                                 ELSE {"Cardiac"}],
   iv |-> [p \in Patients |-> {TRUE}], difficult |-> {FALSE},
   washroom |-> [p \in Patients |-> {TRUE}],
   registration |-> {Minutes(3)}, washroomTime |-> {Minutes(2)}]

\* Inpatients three minutes apart in a shift short enough for the queue
\* burden to close the gate.
PlanRush ==
  [n |-> MaxArrivals, duration |-> Minutes(100), gaps |-> {Minutes(3)},
   fates |-> [p \in Patients |-> {"normal"}],
   types |-> [p \in Patients |-> {"inpatient"}],
   exams |-> [p \in Patients |-> {"Prostate"}],
   iv |-> [p \in Patients |-> {FALSE}], difficult |-> {FALSE},
   washroom |-> [p \in Patients |-> {FALSE}],
   registration |-> {Minutes(3)}, washroomTime |-> {Minutes(2)}]

\* A long shift in which the second round of breaks
\* begins; outpatients arrive 70 or 38 minutes apart.
PlanLongShift ==
  [n |-> MaxArrivals, duration |-> Minutes(300),
   gaps |-> {Minutes(70), Minutes(38)},
   fates |-> [p \in Patients |-> {"normal"}],
   types |-> [p \in Patients |-> {"outpatient"}],
   exams |-> [p \in Patients |-> {"Prostate"}],
   iv |-> [p \in Patients |-> {TRUE}], difficult |-> {FALSE},
   washroom |-> [p \in Patients |-> {TRUE}],
   registration |-> {Minutes(3)}, washroomTime |-> {Minutes(2)}]

\* A one-hour shift: a no-show at the start and a late patient booked five
\* minutes before the end.
PlanLateEnd ==
  [n |-> MaxArrivals, duration |-> Minutes(60), gaps |-> {Minutes(55)},
   fates |-> [p \in Patients |-> IF p = 1 THEN {"noshow"} ELSE {"late"}],
   types |-> [p \in Patients |-> {"outpatient", "inpatient"}],
   exams |-> [p \in Patients |-> {"Prostate"}],
   iv |-> [p \in Patients |-> {FALSE}], difficult |-> {FALSE},
   washroom |-> [p \in Patients |-> {FALSE}],
   registration |-> {Minutes(3)}, washroomTime |-> {Minutes(2)}]

\* Outpatients one minute apart: the first four need an IV and keep both
\* backup techs busy, the first two are scanned while the other three take
\* the washroom excursion.
PlanWashroom ==
  [n |-> MaxArrivals, duration |-> Minutes(150), gaps |-> {Minutes(1)},
   fates |-> [p \in Patients |-> {"normal"}],
   types |-> [p \in Patients |-> {"outpatient"}],
   exams |-> [p \in Patients |-> {"Prostate"}],
   iv |-> [p \in Patients |-> {p < 5}], difficult |-> {FALSE},
   washroom |-> [p \in Patients |-> {p \in 3..5}],
   registration |-> {Hundredths(240)}, washroomTime |-> {Hundredths(330)}]

\* One outpatient whose IV rolls may each go either way, then no-shows.
PlanDifficultIV ==
  [n |-> MaxArrivals, duration |-> Minutes(120), gaps |-> {Minutes(20)},
   fates |-> [p \in Patients |-> IF p = 1 THEN {"normal"} ELSE {"noshow"}],
   types |-> [p \in Patients |-> {"outpatient"}],
   exams |-> [p \in Patients |-> {"Prostate"}],
   iv |-> [p \in Patients |-> BOOLEAN], difficult |-> BOOLEAN,
   washroom |-> [p \in Patients |-> {FALSE}],
   registration |-> {Minutes(3)}, washroomTime |-> {Minutes(2)}]

\* A shift that ends while its only patient is being scanned or, when that
\* patient does not show up either, five minutes after a second no-show.
PlanOvertime ==
  [n |-> MaxArrivals, duration |-> Minutes(35), gaps |-> {Minutes(30)},
   fates |-> [p \in Patients |-> IF p = 1 THEN {"normal", "noshow"} ELSE {"noshow"}],
   types |-> [p \in Patients |-> {"outpatient"}],
   exams |-> [p \in Patients |-> {"Prostate"}],
   iv |-> [p \in Patients |-> {FALSE}], difficult |-> {FALSE},
   washroom |-> [p \in Patients |-> {FALSE}],
   registration |-> {Minutes(3)}, washroomTime |-> {Minutes(2)}]

\* A late patient followed, five minutes later and before it has arrived,
\* by the next booking.
PlanLateTick ==
  [n |-> MaxArrivals, duration |-> Minutes(100), gaps |-> {Minutes(5)},
   fates |-> [p \in Patients |-> IF p = 1 THEN {"late"} ELSE {"noshow"}],
   types |-> [p \in Patients |-> {"outpatient", "inpatient"}],
   exams |-> [p \in Patients |-> {"Prostate"}],
   iv |-> [p \in Patients |-> {FALSE}], difficult |-> {FALSE},
   washroom |-> [p \in Patients |-> {FALSE}],
   registration |-> {Minutes(3)}, washroomTime |-> {Minutes(2)}]

\* A fifteen-hour shift with one outpatient and no-shows at its start: the
\* six break cycles go through all their blocks and end.
PlanFullDay ==
  [n |-> MaxArrivals, duration |-> Minutes(900), gaps |-> {Minutes(20)},
   fates |-> [p \in Patients |-> IF p = 1 THEN {"normal"} ELSE {"noshow"}],
   types |-> [p \in Patients |-> {"outpatient"}],
   exams |-> [p \in Patients |-> {"Prostate"}],
   iv |-> [p \in Patients |-> {FALSE}], difficult |-> {FALSE},
   washroom |-> [p \in Patients |-> {FALSE}],
   registration |-> {Minutes(3)}, washroomTime |-> {Minutes(2)}]

Plans == {PlanCrowd, PlanTurnover, PlanBreaks, PlanRush, PlanLongShift,
          PlanLateEnd, PlanWashroom, PlanDifficultIV, PlanOvertime, PlanLateTick,
          PlanFullDay}

Init == \E pl \in Plans : RunEntered(pl)

\* ------------------------------------------------------------------------
\* The processes, by the function they run
\* ------------------------------------------------------------------------
Generator == GenStart \/ GenClose \/ GenNoShow \/ GenPatient

Ghost == \E p \in Patients :
  GhostStart(p) \/ GhostGetMagnet(p) \/ GhostIdle(p) \/ GhostRelease(p)

Outpatient == \E p \in Patients :
  \/ JStartLate(p) \/ JArrive(p) \/ JRegister(p) \/ JTransport(p)
  \/ JPorterWalk(p) \/ JSeekChangeRoom(p) \/ JStartChanging(p) \/ JChanged(p)
  \/ JPrep(p)
  \/ JIvDone(p) \/ JPrepped(p) \/ JWashroom(p) \/ JWashroomDone(p)
  \/ JGetMagnet(p) \/ JSeizeMagnet(p) \/ JEnterMagnet(p) \/ JSetupDone(p)
  \/ JScanDone(p) \/ JFork(p) \/ JFlipStart(p) \/ JFlipDone(p)
  \/ XSeekRoom(p) \/ XChangeBack(p) \/ XLeave(p)

Inpatient == \E p \in Patients :
  \/ IHold(p) \/ IRequestMagnet(p) \/ ITransfer(p) \/ IScanStart(p)
  \/ IScanDone(p) \/ IExit(p) \/ ILeave311(p)

Breaks == \E s \in Staff :
  \/ BStart(s) \/ BRequestSlot(s) \/ BBegin(s) \/ BCovered(s) \/ BHandover(s)
  \/ BBreakEnd(s) \/ BHandback(s)

Washroom == \E p \in Patients :
  UseWashroom(p) \/ UseWashroomGranted(p) \/ UseWashroomDone(p)

\* What the scheduler would do with the processes of the department:
\* env.step and the driver's loop.
Scheduled ==
  \/ AdvanceTime \/ DriverStep
  \/ Generator \/ Ghost \/ Outpatient \/ Inpatient \/ Breaks \/ Washroom

\* ------------------------------------------------------------------------
\* Next-state relation: HeadlessSimulation.run as written.  It ends at the
\* call of the generator, so no step of Scheduled is part of it.
\* ------------------------------------------------------------------------
Next ==
  \/ BuildEnvironment
  \/ PutMagnet
  \/ StartBreakCycle
  \/ GeneratorCallAsWritten

Spec == Init /\ [][Next]_vars

\* run() is one sequence of statements: each is followed by the next until
\* the call that raises.
FairSpec == Spec /\ WF_vars(Next)

\* ------------------------------------------------------------------------
\* Properties
\* The statements about the processes are written over the states the
\* processes produce.  A run of Spec creates the break cycles and nothing
\* else, and runs none of them: no request, no arrival, no scan, no break.
\* Of these statements only those that say something of such a run are
\* settled: C19 and C21 here, C26, C29 and C32 for the first engine.
\* ------------------------------------------------------------------------
\* No process can run at the current instant: virtual time can advance.
TimeCanAdvance == \A q \in Procs : ~Ready(q)

ScanStaff == {s \in Staff : StaffRole(s) = "scan"}

\* q waits in the magnet_access queue with priority prio.
WaitsForAccess(q, prio) ==
  \E i \in 1..Len(res["magnet_access"].queue) :
    /\ res["magnet_access"].queue[i].who = q
    /\ res["magnet_access"].queue[i].prio = prio

\* C1: no resource ever has more holders than its capacity.
HoldersWithinCapacity == \A r \in ResNames : Count(res, r) <= Capacity(r)

\* Both magnet-access slots are held while a third request waits.
FullResourceWitness ==
  /\ Count(res, "magnet_access") = Capacity("magnet_access")
  /\ QueueLen(res, "magnet_access") > 0

\* C2: a scan tech is away on break only while its cycle holds a
\* backup_techs unit; it leaves no sooner than the hand-over delay after the
\* unit was seized and the backup sent to the station, and the unit is
\* released no sooner than the hand-over delay after the scan tech is back.
NoCoverageGap ==
  \A s \in ScanStaff :
    LET c == hist.cover[s]
        held == B(s) \in res["backup_techs"].users
    IN /\ mgr.away[s] => held
       /\ c.left >= 0 => /\ c.seized >= 0
                         /\ c.posted >= c.seized
                         /\ c.left >= c.posted + Minutes(HandoverDelay)
       /\ (c.seized >= 0 /\ c.released < 0) => held
       /\ c.released >= 0 => /\ c.back >= c.left
                             /\ c.left >= 0
                             /\ c.released >= c.back + Minutes(HandoverDelay)
                             /\ ~mgr.away[s]

\* A scan tech has been on break and has handed back: the whole covered
\* cycle has run.
CoveredBreakWitness ==
  \E s \in ScanStaff : hist.cover[s].released >= 0 /\ hist.cover[s].left >= 0

\* C3: a waiting priority-1 request (outpatient or no-show) is never
\* granted a magnet-access slot while a priority-0 request (inpatient) waits.
InpatientServedFirst ==
  [][\A q \in Procs :
       (WaitsForAccess(q, PRIORITY_OUTPATIENT) /\ q \in res'["magnet_access"].users)
         => ~\E r \in Procs : WaitsForAccess(r, PRIORITY_INPATIENT)]_vars

\* An inpatient has just been granted the slot that freed while a
\* priority-1 request that was queued before the inpatient's still waits.
InpatientOvertakesWitness ==
  \E p \in Patients : \E q \in Procs :
    /\ pat[p].ptype = "inpatient"
    /\ pc[J(p)] = "wait_access"
    /\ J(p) \in res["magnet_access"].users
    /\ hist.accessAt[J(p)] > 0
    /\ WaitsForAccess(q, PRIORITY_OUTPATIENT)
    /\ hist.accessAt[q] < hist.accessAt[J(p)]
    /\ now > hist.accessAt[J(p)]

\* C4: whenever virtual time can advance, patients_in_system equals
\* patients_arrived - patients_completed and is not negative.
PopulationBalance ==
  TimeCanAdvance => /\ stats.pis = stats.arrived - stats.completed
                    /\ stats.pis >= 0

\* Time can advance with patients both in the system and completed.
PopulationWitness ==
  /\ running
  /\ TimeCanAdvance
  /\ stats.pis > 0
  /\ stats.completed > 0

\* C5: once the gate is closed generator_active stays false and no journey
\* and no ghost is started any more.
GateStaysClosed ==
  [][~stats.genActive =>
       /\ ~stats'.genActive
       /\ hist'.created = hist.created
       /\ hist'.ghosts = hist.ghosts
       /\ gen' = gen]_vars

\* The gate closed, with patients in the system, before the planned arrivals
\* were used up, and those patients have since run to completion.
ClosedGateWitness ==
  /\ ~stats.genActive
  /\ gen.pid < plan.n
  /\ now > hist.closedAt
  /\ stats.pis = 0
  /\ now < Duration

\* A step of the generator out of the top of its loop.
GeneratorTick ==
  /\ pc[Gen] = "tick"
  /\ pc'[Gen] # pc[Gen] \/ gen' # gen \/ stats'.genActive # stats.genActive

\* The closing condition in the claim's terms: the burden in minutes against
\* the minutes left, the single-case buffer, the end of the shift.
ShouldClose ==
  \/ stats.pis * AVG_CYCLE_TIME * TicksPerMinute > MagnetCount * (Duration - now)
  \/ (now > Duration - MAX_SCAN_TIME * TicksPerMinute /\ stats.pis > 0)
  \/ now >= Duration

\* C6: on a tick the gate closes exactly when the burden exceeds the time
\* left, or the buffer is reached with patients in the system, or the shift
\* has ended; otherwise exactly one arrival is processed.  With 5 patients
\* and 60 minutes left the burden (112.5) closes the gate.
GateDecision ==
  /\ BurdenExceeds(5, Minutes(40), Minutes(100))
  /\ [][GeneratorTick =>
          IF ShouldClose
          THEN /\ pc'[Gen] = "done"
               /\ ~stats'.genActive
               /\ gen' = gen
               /\ hist'.created = hist.created
               /\ hist'.ghosts = hist.ghosts
          ELSE /\ pc'[Gen] = "tick"
               /\ stats'.genActive
               /\ gen'.pid = gen.pid + 1
               /\ Cardinality(hist'.created \cup hist'.ghosts)
                    = Cardinality(hist.created \cup hist.ghosts) + 1]_vars

\* The gate has closed on the burden alone: the buffer was not reached, the
\* shift had not ended and arrivals were still planned.
BurdenClosesWitness ==
  /\ pc[Gen] = "done"
  /\ hist.closedAt >= 0
  /\ hist.closedAt <= Duration - Minutes(MAX_SCAN_TIME)
  /\ gen.pid < plan.n
  /\ gen.pid >= 2

TurnoverEvents == {"left_room", "clean_start", "turnover_end", "returned"}
TurnoverSequence == <<"left_room", "clean_start", "turnover_end", "returned">>
IsTurnoverEvent(e) == e \in TurnoverEvents
Before(tr, a, b) ==
  \E i \in 1..Len(tr) : \E j \in 1..Len(tr) : i < j /\ tr[i] = a /\ tr[j] = b

\* The events of the turnover after p's scan are so far in the right order.
InTurnoverOrder(p) ==
  LET tr == SelectSeq(hist.trace[p], IsTurnoverEvent)
  IN /\ Len(tr) <= Len(TurnoverSequence)
     /\ \A i \in 1..Len(tr) : tr[i] = TurnoverSequence[i]

\* The exit continuation of p holds no magnet, no magnet resource and no
\* access slot.
ExitHoldsNoMagnet(p) ==
  /\ mag[X(p)] = NoMagnet
  /\ \A r \in {"magnet_access", "magnet_3t_res", "magnet_15t_res"} :
       X(p) \notin res[r].users /\ ~WaitsForAccess(X(p), PRIORITY_OUTPATIENT)

\* A step of the exit continuation of p.
ExitStep(p) == pc'[X(p)] # pc[X(p)] \/ timer'[X(p)] > timer[X(p)]

\* C7: after an outpatient's scan the patient leaves the room before the
\* cleaning starts, the cleaning starts before the turnover ends, and the
\* turnover ends before the magnet is back in the pool; the exit
\* continuation neither holds nor releases a magnet.
ForkOrder ==
  /\ [](\A p \in Patients : InTurnoverOrder(p) /\ ExitHoldsNoMagnet(p))
  /\ [][\A p \in Patients :
          ExitStep(p) => /\ pool' = pool
                         /\ poolWait' = poolWait
                         /\ mag' = mag
                         /\ lastExam' = lastExam
                         /\ \A r \in {"magnet_access", "magnet_3t_res", "magnet_15t_res"} :
                              res'[r] = res[r]]_vars

\* One patient has finished exiting before its magnet was returned and
\* another after.
ExitBeforeAndAfterWitness ==
  \E p \in Patients : \E q \in Patients :
    /\ Before(hist.trace[p], "exited", "returned")
    /\ Before(hist.trace[q], "returned", "exited")

\* A step that writes last_exam_type of magnet m.
WritesLastExam(m) == hist'.writes[m] # hist.writes[m] \/ lastExam'[m] # lastExam[m]

\* C8: last_exam_type of a magnet is written only by the end of an
\* outpatient's bed flip on it, to that patient's protocol and in the step
\* that puts the magnet back; every turnover writes it exactly once.
SingleProtocolWrite ==
  /\ [](\A p \in Patients :
          hist.written[p] = IF pc[J(p)] = "done" /\ pat[p].ptype = "outpatient"
                            THEN 1 ELSE 0)
  /\ [][\A m \in Magnets :
          WritesLastExam(m) =>
            \E p \in Patients :
              /\ pat[p].ptype = "outpatient"
              /\ pc[J(p)] = "flip" /\ pc'[J(p)] = "done"
              /\ mag[J(p)] = m /\ mag'[J(p)] = NoMagnet
              /\ lastExam'[m] = pat[p].exam
              /\ hist'.writes[m] = hist.writes[m] + 1
              /\ (\E i \in 1..Len(pool') : pool'[i] = m)
                   \/ (\E q \in Procs : mag[q] = NoMagnet /\ mag'[q] = m)]_vars

\* A magnet has been turned over twice, by two patients with different
\* protocols, and the second write has replaced the first.
TwoWritesWitness ==
  \E m \in Magnets : \E p \in Patients : \E q \in Patients :
    /\ hist.writes[m] = 2
    /\ hist.written[p] = 1 /\ hist.written[q] = 1
    /\ pat[p].exam # pat[q].exam
    /\ hist.turn[m].by = q
    /\ hist.turn[m].last = pat[p].exam
    /\ lastExam[m] = pat[q].exam

\* C9: a bed flip lasts one bed_flip_fast sample when the magnet's last
\* protocol equals the protocol of the patient just scanned, and otherwise
\* the larger of a bed_flip_slow and a settings_change sample.
FlipDuration ==
  \A p \in Patients :
    pc[J(p)] = "flip" =>
      LET f == hist.flip[p]
      IN IF lastExam[mag[J(p)]] = pat[p].exam
         THEN f.dur = f.fast /\ f.fast \in Times("bed_flip_fast")
         ELSE /\ f.slow \in Times("bed_flip_slow")
              /\ f.settings \in Times("settings_change")
              /\ f.dur >= f.slow /\ f.dur >= f.settings
              /\ f.dur \in {f.slow, f.settings}

\* After a fast flip earlier in the run, a slow flip is under way whose
\* settings change outlasts the cleaning.
BothFlipsWitness ==
  /\ hist.hot # {}
  /\ \E p \in Patients :
       /\ pc[J(p)] = "flip"
       /\ lastExam[mag[J(p)]] # pat[p].exam
       /\ hist.flip[p].settings > hist.flip[p].slow
       /\ hist.flip[p].dur = hist.flip[p].settings

\* m is being used for the scan of patient q, who follows the turnover
\* recorded for m.
ScannedNext(m, q) ==
  /\ mag[J(q)] = m
  /\ pat[q].loc = "magnet"
  /\ hist.turn[m].by \notin {0, q}

\* C10 as stated: the turnover was short exactly when the magnet's last
\* protocol equalled the protocol of the next patient scanned on it.
FlipComparesUpcoming ==
  \A m \in Magnets : \A q \in Patients :
    ScannedNext(m, q) => (hist.turn[m].hot <=> hist.turn[m].last = pat[q].exam)

\* What the code compares (workflow.py 713): the turnover is short exactly
\* when the magnet's last protocol equals the protocol of the patient just
\* scanned on it.
FlipComparesJustScanned ==
  \A m \in Magnets :
    hist.turn[m].by # 0 =>
      (hist.turn[m].hot <=> hist.turn[m].last = pat[hist.turn[m].by].exam)

\* A short turnover is followed on the same magnet by a patient with
\* another protocol.
ShortFlipThenOtherProtocolWitness ==
  \E m \in Magnets : \E q \in Patients :
    /\ ScannedNext(m, q)
    /\ hist.turn[m].hot
    /\ pat[q].exam # pat[hist.turn[m].by].exam

\* The resources a no-show ghost has no business with.
NotForGhosts == ResNames \ {"magnet_access"}

\* A step of the ghost of arrival p.
GhostStepOf(p) == pc'[G(p)] # pc[G(p)]

\* C11: the ghost of a no-show holds one magnet-access slot from the grant
\* until it releases it exactly no_show_wait later; it never holds or queues
\* for any other resource, no Patient object exists for its arrival, and
\* none of its steps changes patients_in_system, patients_completed, the
\* Patient objects, the other resources or a magnet's last_exam_type.
NoShowFrame ==
  /\ [](\A p \in Patients :
         /\ pc[G(p)] \in {"wait_pool", "idle"}
              => /\ G(p) \in res["magnet_access"].users
                 /\ hist.ghost[p].grant >= 0
         /\ pc[G(p)] = "idle"
              => now + timer[G(p)] = hist.ghost[p].grant + Minutes(NoShowWait)
         /\ pc[G(p)] = "done"
              => /\ hist.ghost[p].release = hist.ghost[p].grant + Minutes(NoShowWait)
                 /\ G(p) \notin res["magnet_access"].users
         /\ \A r \in NotForGhosts :
              /\ G(p) \notin res[r].users
              /\ \A i \in 1..Len(res[r].queue) : res[r].queue[i].who # G(p)
         /\ pc[G(p)] # "none" => /\ pat[p] = NewPatient
                                 /\ pc[J(p)] = "none"
                                 /\ p \notin hist.created)
  /\ [][\A p \in Patients :
         GhostStepOf(p) =>
           /\ stats' = stats
           /\ lastExam' = lastExam
           /\ pat' = pat
           /\ mgr' = mgr
           /\ \A r \in NotForGhosts : res'[r] = res[r]]_vars

\* A ghost has served its whole penalty window while a patient was in the
\* department and a magnet had a last-serviced protocol.
NoShowServedWitness ==
  \E p \in Patients :
    /\ pc[G(p)] = "done"
    /\ hist.ghost[p].release >= 0
    /\ stats.pis > 0
    /\ \E m \in Magnets : lastExam[m] # NoExam

\* The processes that have magnet m checked out.
HoldersOf(m) == {q \in Procs : mag[q] = m}

\* The number of items of the pool that are magnet m.
InPool(m) == Cardinality({i \in 1..Len(pool) : pool[i] = m})

\* C12: each magnet instance is either in the pool or checked out by one
\* process, which is a journey (outpatient or inpatient) or a no-show
\* ghost; pool items and checked-out instances total two.
MagnetConservation ==
  /\ \A m \in Magnets :
       /\ InPool(m) + Cardinality(HoldersOf(m)) = 1
       /\ \A q \in HoldersOf(m) :
            \E p \in Patients : q = J(p) \/ q = G(p)
  /\ \A i \in 1..Len(pool) : pool[i] \in Magnets
  /\ Len(pool) + Cardinality({q \in Procs : mag[q] # NoMagnet}) = MagnetCount

\* The pool is empty: one magnet is with a no-show ghost, the other with a
\* patient, and a third process waits for an access slot.
PoolEmptyWitness ==
  /\ pool = <<>>
  /\ \E p \in Patients : mag[G(p)] # NoMagnet
  /\ \E p \in Patients : mag[J(p)] # NoMagnet
  /\ QueueLen(res, "magnet_access") > 0

\* The staff members whose staff_on_break entry is true.
OnBreak == {s \in Staff : mgr.onBreak[s]}

\* C13: at most one staff member holds the break slot, whoever is flagged
\* on break holds it, and so at most one staff_on_break entry is true.
OneOnBreak ==
  /\ Cardinality(res["break_slot"].users) <= 1
  /\ \A s \in OnBreak : B(s) \in res["break_slot"].users
  /\ Cardinality(OnBreak) <= 1

\* One staff member is on break while another waits for the break slot.
BreakQueueWitness ==
  /\ OnBreak # {}
  /\ QueueLen(res, "break_slot") > 0

HoldsSlot(s) == B(s) \in res["break_slot"].users

WantsSlot(s) ==
  \E i \in 1..Len(res["break_slot"].queue) : res["break_slot"].queue[i].who = B(s)

\* The order of the positions of a break cycle.
BreakMoves ==
  {<<"start", "delay">>, <<"delay", "wait_slot">>, <<"wait_slot", "wait_cover">>,
   <<"wait_slot", "break">>, <<"wait_cover", "handover">>, <<"wait_cover", "break">>,
   <<"handover", "break">>, <<"break", "handback">>, <<"break", "interval">>,
   <<"handback", "interval">>, <<"interval", "wait_slot">>, <<"interval", "done">>}

\* The hand-off of the role of s has been made.
HandedOff(s) ==
  CASE StaffRole(s) = "admin" -> mgr.covering /\ B(s) \in res["porter"].users
    [] StaffRole(s) = "scan" -> /\ mgr.cov[StaffIdx(s)]
                                /\ B(s) \in res["backup_techs"].users
    [] StaffRole(s) = "backup" -> B(s) \in res["backup_techs"].users
    [] OTHER -> TRUE

\* The hand-off of the role of s has been reverted.
Reverted(s) ==
  /\ B(s) \notin res["porter"].users \cup res["backup_techs"].users
  /\ StaffRole(s) = "admin" => ~mgr.covering
  /\ StaffRole(s) = "scan" => ~mgr.cov[StaffIdx(s)]

\* C14: a break cycle waits its initial offset and then, block after block
\* of the schedule: acquires the break slot, hands off, is off duty for the
\* duration of the block, reverts the hand-off, releases the break slot and
\* waits the inter-break interval.  The slot is held from the grant to the
\* end of the block only, and is never requested while still held.
BreakCycleOrder ==
  /\ [](\A s \in Staff :
         /\ pc[B(s)] \in {"wait_cover", "handover", "break", "handback"} => HoldsSlot(s)
         /\ pc[B(s)] \in {"none", "start", "delay", "interval", "done"}
              => ~HoldsSlot(s) /\ ~WantsSlot(s) /\ Reverted(s) /\ ~mgr.onBreak[s]
         /\ pc[B(s)] = "break" => HandedOff(s) /\ mgr.away[s]
         /\ mgr.blocks[s] <= Len(BreakSchedule))
  /\ [][\A s \in Staff :
         pc'[B(s)] # pc[B(s)] =>
           /\ <<pc[B(s)], pc'[B(s)]>> \in BreakMoves
           /\ pc'[B(s)] = "delay"
                => timer'[B(s)] = Minutes(StartDelay(StaffRole(s)) + 20 * StaffIdx(s))
           /\ pc'[B(s)] = "wait_slot"
                => /\ ~HoldsSlot(s)
                   /\ mgr.blocks[s] < Len(BreakSchedule)
                   /\ HoldsSlot(s)' \/ WantsSlot(s)'
           /\ pc'[B(s)] = "break"
                => /\ timer'[B(s)] = Minutes(BreakSchedule[mgr.blocks[s] + 1])
                   /\ HandedOff(s)'
           /\ pc'[B(s)] = "interval"
                => /\ ~HoldsSlot(s)'
                   /\ Reverted(s)'
                   /\ timer'[B(s)] = Minutes(BreakInterval)
                   /\ mgr'.blocks[s] = mgr.blocks[s] + 1
           /\ pc'[B(s)] = "done" => mgr.blocks[s] = Len(BreakSchedule)]_vars

\* A staff member is off duty for the second block of the schedule.
SecondBlockWitness ==
  \E s \in Staff : mgr.blocks[s] = 1 /\ pc[B(s)] = "break" /\ HoldsSlot(s)

\* The break cycle of the admin desk.
AdminStaff == {s \in Staff : StaffRole(s) = "admin"}

\* C15 as stated: whenever porter_covering_admin is true the porter's unit
\* is held by the coverage request of the admin's break cycle, and by no
\* patient process.
PorterExclusivelyAtDesk ==
  mgr.covering =>
    /\ \E s \in AdminStaff : B(s) \in res["porter"].users
    /\ \A p \in Patients : J(p) \notin res["porter"].users

\* What the code does keep: the coverage request is made in the step that
\* sets the flag and is ahead of every other request in the porter's
\* queue, and the flag is cleared in the step that releases the unit.
CoverageRequestedFirst ==
  mgr.covering =>
    \E s \in AdminStaff :
      \/ B(s) \in res["porter"].users
      \/ /\ QueueLen(res, "porter") > 0
         /\ res["porter"].queue[1].who = B(s)
         /\ pc[B(s)] = "wait_cover"

\* The flag is up while a bed turnover still has the porter.
CoveringWhileTurnover ==
  /\ mgr.covering
  /\ \E p \in Patients : J(p) \in res["porter"].users /\ pc[J(p)] = "flip"

\* A scan tech is picked for patient p in this step.
PicksTech(p) ==
  /\ pc'[J(p)] # pc[J(p)]
  /\ pc'[J(p)] \in {"setup", "inpatient_scan"}

\* C16 as stated: whichever workflow picks the scan tech of a magnet, it
\* picks the backup tech exactly when scan_coverage_status of the
\* magnet's station is true.
TechFollowsCoverage ==
  [][\A p \in Patients :
       PicksTech(p) =>
         (pat'[p].tech = "backup") = mgr.cov[TechIdx(mag[J(p)])]]_vars

\* What the code does keep: the inpatient workflow follows the coverage
\* flag and the outpatient workflow follows staff_on_break.
TechFollowsOwnFlag ==
  [][\A p \in Patients :
       PicksTech(p) =>
         (pat'[p].tech = "backup") =
            IF pat[p].ptype = "inpatient" THEN mgr.cov[TechIdx(mag[J(p)])]
            ELSE mgr.onBreak[5 + TechIdx(mag[J(p)])]]_vars

\* An outpatient is in a magnet with the primary scan tech while the
\* coverage flag of the station is still up.
PrimaryPickedUnderCoverage ==
  \E p \in Patients :
    /\ pc[J(p)] = "setup"
    /\ pat[p].tech = "scan"
    /\ mgr.cov[TechIdx(mag[J(p)])]

\* q waits in the porter's queue with priority prio.
WaitsForPorter(q, prio) ==
  \E i \in 1..Len(res["porter"].queue) :
    /\ res["porter"].queue[i].who = q
    /\ res["porter"].queue[i].prio = prio

\* In the department no transport request ever waits for the porter: the
\* request is made only in the segment that has found the porter free.
TransportNeverWaits ==
  \A q \in Procs : ~WaitsForPorter(q, PriorityTransport)

\* C17: a waiting transport request (priority 1) is never granted the
\* porter while a bed-turnover request (priority 0) waits, in whatever
\* order the two were queued.
TurnoverBeforeTransport ==
  [][\A q \in Procs :
       (WaitsForPorter(q, PriorityTransport) /\ q \in res'["porter"].users)
         => ~\E r \in Procs : WaitsForPorter(r, PriorityTurnover)]_vars

\* The case of C17: a transport request and a turnover request both wait
\* for the porter.  By TransportNeverWaits no run reaches it.
TransportAndTurnoverQueued ==
  \E a, b \in Procs :
    WaitsForPorter(a, PriorityTurnover) /\ WaitsForPorter(b, PriorityTransport)

\* The porter is free: not held, not queued for, not on break and not
\* covering the admin desk.
PorterFree ==
  /\ res["porter"].users = {}
  /\ res["porter"].queue = <<>>
  /\ ~mgr.onBreak[1]
  /\ ~mgr.covering

\* Patient p leaves registration in this step.
DecidesEscort(p) == pc[J(p)] = "registering" /\ pc'[J(p)] # "registering"

\* C18: at the decision after registration the escort is the porter when
\* the porter is free, and the porter is then granted at once; otherwise it
\* is the staff at the desk, which is the porter when it covers the admin
\* desk; the backup tech and the wait for the porter come after these two
\* and are chosen only when neither applies.  The choice is made once: no
\* later step changes it.
TransportOrder ==
  [][\A p \in Patients :
       /\ DecidesEscort(p) =>
            /\ hist.escort[p] = "none"
            /\ PorterFree => /\ hist'.escort[p] = "porter"
                              /\ J(p) \in res'["porter"].users
            /\ ~PorterFree => hist'.escort[p] =
                                 (IF mgr.covering THEN "desk_porter" ELSE "desk_admin")
            /\ hist'.escort[p] = "backup" => ~PorterFree /\ mgr.covering = mgr'.covering
       /\ hist.escort[p] # "none" => hist'.escort[p] = hist.escort[p]]_vars

\* In one run a patient was escorted by the free porter and another by the
\* admin at the desk while the porter was on break with its unit free.
EscortsChosenWitness ==
  /\ \E p \in Patients : hist.escort[p] = "porter"
  /\ \E p \in Patients :
       /\ hist.escort[p] = "desk_admin"
       /\ hist.decided[p].away
       /\ ~hist.decided[p].held

\* C19 as stated: the backup-tech escort is used.  The run of the
\* department comes to a state in which a patient, having left
\* registration with the porter on break or covering the admin desk and a
\* backup_techs unit free, is escorted to the change area by a backup tech.
BackupEscortUsed ==
  <>(\E p \in Patients :
       /\ hist.escort[p] = "backup"
       /\ hist.decided[p].away
       /\ hist.decided[p].backupFree)

\* What the code does: no patient is ever escorted by a backup tech, in
\* any state of any run.
NoBackupEscort ==
  \A p \in Patients :
    /\ hist.escort[p] # "backup"
    /\ pc[J(p)] \notin {"wait_backup_escort", "backup_escort"}

\* run() is over and no patient has come to the escort decision: none was
\* created, and no break has put the porter away.
EndedBeforeAnyEscort ==
  /\ ~running
  /\ pc[Gen] = "none"
  /\ hist.created = {}
  /\ \A p \in Patients : ~hist.decided[p].done /\ hist.escort[p] = "none"
  /\ \A s \in Staff : ~mgr.onBreak[s]

\* Patient p has reached 'exited' and has been logged as finished.
Exited(p) == \E i \in 1..Len(hist.trace[p]) : hist.trace[p][i] = "exited"

\* The run is over and the safety ceiling was not reached.
EndedBelowCeiling == ~running /\ now < Duration + Minutes(OvertimeCap)

\* The patients that have arrived ('arriving' was logged).
Arrived == {p \in hist.created : pat[p].ptype # "unknown"}

\* C20 as stated: when the run ends without having reached the safety
\* ceiling, every patient whose journey the generator started has reached
\* 'exited' and has been logged as finished.
StartedPatientsFinish ==
  EndedBelowCeiling =>
    /\ \A p \in hist.created : Exited(p)
    /\ stats.completed = Cardinality(hist.created)

\* What the code does keep: no run lasts until the safety ceiling, and when
\* a run ends the patients that have arrived have all exited and been
\* logged.
ArrivedPatientsFinish ==
  /\ now < Duration + Minutes(OvertimeCap)
  /\ ~running =>
       /\ \A p \in Arrived : Exited(p)
       /\ stats.completed = Cardinality(Arrived)
       /\ stats.pis = 0

\* The run has ended below the ceiling while a late patient, whose journey
\* was started, had not yet arrived.
LatePatientLeftOut ==
  /\ EndedBelowCeiling
  /\ \E p \in hist.created : pc[J(p)] = "late" /\ ~Exited(p)

\* ------------------------------------------------------------------------
\* C21, the part that needs no fairness: the clock never passes the ceiling
\* duration + 300 by more than one step of the loop, and when the loop
\* stops no patient is in the system or the ceiling has been reached; the
\* stop changes neither the clock nor the counters.
\* ------------------------------------------------------------------------
OvertimeCeiling == Duration + Minutes(OvertimeCap)

RunStops ==
  [][running /\ ~running' =>
       /\ now' = now
       /\ stats' = stats
       /\ now >= Duration
       /\ (stats.pis = 0 \/ now >= OvertimeCeiling)]_vars

WithinCeiling == now <= OvertimeCeiling + Minutes(1)

\* C21 as stated: a headless run ends through its overtime loop only.  When
\* run() is over the shift has been run to its end, and no patient is in the
\* system or the clock has reached the ceiling.
RunEndsThroughLoop ==
  (~running /\ pc[Gen] \notin DriverSteps) =>
    (now >= Duration /\ (stats.pis = 0 \/ now >= OvertimeCeiling))

\* run() is over at virtual time 0: it ended at its call of the generator,
\* with the break cycles created and never run.
EndedAtGeneratorCall ==
  /\ ~running
  /\ now = 0
  /\ pc[Gen] = "none"
  /\ \A s \in Staff : pc[B(s)] = "start"

\* ------------------------------------------------------------------------
\* C22: no capacity leak.  A process that has run to its end (journey, exit
\* process, inpatient journey, no-show ghost, break cycle) holds no unit of
\* any resource, waits for none and has no magnet checked out; once every
\* process has run to its end each resource has zero holders and both
\* magnets are back in the pool.
\* ------------------------------------------------------------------------
HoldsNothing(q) ==
  /\ \A r \in ResNames : q \notin res[r].users
  /\ ~Blocked(q)
  /\ mag[q] = NoMagnet

\* Every process the generator has started has run to its end.
AllEnded == \A q \in Procs \ {Gen} : ~Alive(q)

NoCapacityLeak ==
  /\ \A q \in Procs : pc[q] = "done" => HoldsNothing(q)
  /\ \A s \in Staff : pc[B(s)] \in {"delay", "interval"} => HoldsNothing(B(s))
  /\ AllEnded =>
       /\ \A r \in ResNames : res[r].users = {} /\ res[r].queue = <<>>
       /\ \A m \in Magnets : InPool(m) = 1
       /\ Len(pool) = MagnetCount
       /\ poolWait = <<>>

\* Every process has ended after an outpatient (with its exit process) and
\* a no-show ghost went through the department.
AllEndedWitness ==
  /\ AllEnded
  /\ \E p \in Patients : pat[p].ptype = "outpatient" /\ pc[J(p)] = "done"
                         /\ pc[X(p)] = "done"
  /\ \E p \in Patients : pc[G(p)] = "done"

\* ------------------------------------------------------------------------
\* C27: the washroom excursion.  The patient gives up its pre-scan buffer
\* slot before it enters the washroom, holds exactly one washroom unit
\* during the visit, takes a newly allocated buffer slot before it requests
\* magnet access, never holds more than one buffer slot, and keeps that slot
\* until it leaves for the magnet.
\* ------------------------------------------------------------------------
BufferSlotsOf(p) == {i \in Slots : posm.right[i] = p}

WashroomsOf(p) == {w \in Washrooms : J(p) \in res[w].users}

\* The outpatient waits in the pre-scan buffer for its way to the magnet.
InBuffer(p) ==
  /\ pat[p].ptype = "outpatient"
  /\ pc[J(p)] \in {"wait_access", "wait_pool", "wait_magnet"}

InWashroom(p) == pc[J(p)] = "washroom"

\* What holds of the excursion: no slot and one unit during the visit, and
\* never two slots.
ExcursionHoldsOneUnit ==
  \A p \in Patients :
    /\ Cardinality(BufferSlotsOf(p)) <= 1
    /\ InWashroom(p) => BufferSlotsOf(p) = {} /\ Cardinality(WashroomsOf(p)) = 1
    /\ ~InWashroom(p) /\ pc[J(p)] # "wait_washroom" => WashroomsOf(p) = {}

\* The claim with its last part: a patient that waits in the buffer while
\* virtual time passes occupies the slot it was given.
ExcursionKeepsSlot ==
  /\ ExcursionHoldsOneUnit
  /\ \A p \in Patients :
       InBuffer(p) /\ TimeCanAdvance => BufferSlotsOf(p) = {pat[p].wrRight}

\* Patient p is back from the washroom and waits for the magnet without a
\* slot, while the patient that waited at the washroom staging point is in
\* the washroom.
SlotLostWitness ==
  \E p \in Patients : \E q \in Patients \ {p} :
    /\ InBuffer(p) /\ TimeCanAdvance /\ BufferSlotsOf(p) = {}
    /\ InWashroom(q)

\* ------------------------------------------------------------------------
\* Module-level state.  pos_manager and ADMIN_QUEUE outlive a run; the
\* resource monitor of the next run in the same process reads the
\* waiting-room occupancy.  A run that has left its overtime loop with an
\* empty system leaves both as they were constructed.
\* ------------------------------------------------------------------------
\* ADMIN_QUEUE: the patients that have joined the line and not yet taken
\* the admin desk.
ADMIN_QUEUE == {p \in Patients : pc[J(p)] = "wait_admin"}

ModuleStateRestored ==
  ~running /\ stats.pis = 0 => posm = InitPosm /\ ADMIN_QUEUE = {}

\* ------------------------------------------------------------------------
\* C24: for every patient the state-change records sent to the metrics
\* collector form a prefix of the path of its classification (outpatient:
\* arriving, registered, changing, prepped, scanning, changing, exited;
\* inpatient: arriving, prepped, scanning, exited), and the old state of
\* every record is the new state of the patient's previous record.
\* ------------------------------------------------------------------------
OutpatientPath ==
  <<"arriving", "registered", "changing", "prepped", "scanning", "changing", "exited">>

InpatientPath == <<"arriving", "prepped", "scanning", "exited">>

PathOf(p) == IF pat[p].ptype = "inpatient" THEN InpatientPath ELSE OutpatientPath

StateRecordsFollowPath ==
  \A p \in Patients :
    LET rec == stats.calls[p]
    IN /\ Len(rec) <= Len(PathOf(p))
       /\ \A i \in 1..Len(rec) :
            /\ rec[i][2] = PathOf(p)[i]
            /\ rec[i][1] = IF i = 1 THEN "None" ELSE rec[i - 1][2]

\* An outpatient and an inpatient have gone through their whole paths.
WholePathsWitness ==
  /\ \E p \in Patients : pat[p].ptype = "outpatient"
                         /\ Len(stats.calls[p]) = Len(OutpatientPath)
  /\ \E p \in Patients : pat[p].ptype = "inpatient"
                         /\ Len(stats.calls[p]) = Len(InpatientPath)

\* ------------------------------------------------------------------------
\* C25: among requests of equal priority waiting on magnet_access or on the
\* porter, grants follow the request times: a waiting request is never
\* granted while an equal-priority request made earlier still waits.
\* ------------------------------------------------------------------------
PriorityResources == {"magnet_access", "porter"}

\* The queue entry e of resource r is granted in this step.
GrantedNow(r, e) ==
  /\ \E i \in 1..Len(res[r].queue) : res[r].queue[i] = e
  /\ e.who \in res'[r].users
  /\ ~\E i \in 1..Len(res'[r].queue) : res'[r].queue[i] = e

FifoWithinTier ==
  [][\A r \in PriorityResources :
       \A i, j \in 1..Len(res[r].queue) :
         LET e == res[r].queue[i]
             f == res[r].queue[j]
         IN (GrantedNow(r, e) /\ f.prio = e.prio /\ f.at < e.at)
              => GrantedNow(r, f)]_vars

\* Two requests of one priority made at different times wait together.
TierOf(r) ==
  \E i, j \in 1..Len(res[r].queue) :
    /\ res[r].queue[i].prio = res[r].queue[j].prio
    /\ res[r].queue[i].at < res[r].queue[j].at

TwoInTierWitness == TierOf("magnet_access")

\* ------------------------------------------------------------------------
\* The first engine: MRISimulation (engine.py), Patient.process_flow
\* (entities.py) and MRIResources (resources.py).  One magnet, two prep
\* rooms.  engine.py imports its configuration class MRIConfig from
\* src.config, which does not define it: as written the import fails and
\* there is no run (ImportAsWritten).  The processes are run with the
\* configuration supplied as the specification describes it, a parameter
\* set handed over once before the run starts (RunWithConfiguration).
\* ------------------------------------------------------------------------
\* The parameter set: the values a draw from each process-time
\* distribution may return, in ticks.  The class that holds them is not
\* part of the sources; the values are chosen here.
LegacyTimes(task) ==
  CASE task = "arrival_schedule" -> {Minutes(30)}
    [] task = "arrival_delay" -> {0 - Minutes(2), Minutes(4)}
    [] task = "prep" -> {Minutes(8), Minutes(12)}
    [] task = "scan" -> {Minutes(20)}
    [] task = "flip_current" -> {Minutes(5)}
    [] task = "flip_future" -> {Minutes(1)}
    [] task = "flip_override" -> {NoOverride, Minutes(3)}
    [] OTHER -> {Minutes(1)}

\* simulation_hours * 60: one hour, the two hours of
\* tests/test_simulation.py, or a run in which MaxArrivals patients arrive.
LegacyDurations == {Minutes(60), Minutes(120), Minutes(30) * (MaxArrivals + 1)}

legacyRest == <<pool, poolWait, mag, lastExam, pat, stats, mgr, gen, plan, posm>>

\* The caller has chosen simulation_hours and parallel_mode and comes to
\* import MRISimulation from engine.py: nothing has been built.
LegacyInit ==
  /\ now = 0
  /\ running = FALSE
  /\ drv = 0
  /\ pc = [q \in Procs |-> IF q = Gen THEN "import" ELSE "none"]
  /\ timer = [q \in Procs |-> 0]
  /\ res = [r \in ResNames |-> EmptyRes]
  /\ pool = <<"3T", "1.5T">>
  /\ poolWait = <<>>
  /\ mag = [q \in Procs |-> NoMagnet]
  /\ lastExam = [m \in Magnets |-> NoExam]
  /\ pat = [p \in Patients |-> NewPatient]
  /\ stats = InitStats
  /\ mgr = InitMgr
  /\ gen = [pid |-> 0]
  /\ plan = PlanCrowd
  /\ posm = InitPosm
  /\ \E h \in LegacyDurations, par \in BOOLEAN :
       legacy = [NoLegacy EXCEPT !.hours = h, !.parallel = par]
  /\ hist = InitHist

\* engine.py 3 as written: from src.config import MRIConfig raises
\* ImportError.  MRISimulation is never defined, let alone run;
\* tests/test_simulation.py fails at its own import of it.
ImportAsWritten ==
  /\ DriverAt("import")
  /\ pc' = [pc EXCEPT ![Gen] = "none"]
  /\ UNCHANGED <<now, running, drv, timer, res, legacy, hist>>
  /\ UNCHANGED legacyRest

\* The import with the configuration supplied, then MRISimulation.__init__
\* and run up to env.run(until=simulation_hours * 60): the generator has
\* taken its first step (p_id = 1, the noise drawn) and sleeps for the
\* inter-arrival time.
RunWithConfiguration ==
  /\ DriverAt("import")
  /\ running' = TRUE
  /\ drv' = legacy.hours
  /\ pc' = [pc EXCEPT ![Gen] = "slot"]
  /\ \E t \in LegacyTimes("arrival_schedule") :
       timer' = [timer EXCEPT ![Gen] = t]
  /\ \E ov \in LegacyTimes("flip_override"), nz \in LegacyTimes("arrival_delay") :
       legacy' = [legacy EXCEPT !.override = ov, !.pid = 1, !.noise = nz]
  /\ UNCHANGED <<now, res, hist>>
  /\ UNCHANGED legacyRest

\* patient_generator after its timeout: the patient is created with its
\* arrival time, its wrapper process is started, and the loop draws the next
\* noise and sleeps again.
SlotArrival ==
  /\ CanRun(Gen, "slot")
  /\ legacy.pid \in Patients
  /\ LET p == legacy.pid
         off == Max(0, legacy.noise)
     IN /\ pc' = [pc EXCEPT ![J(p)] = "handle"]
        /\ \E t \in LegacyTimes("arrival_schedule"), nz \in LegacyTimes("arrival_delay") :
             /\ timer' = [timer EXCEPT ![Gen] = t]
             /\ legacy' = [legacy EXCEPT !.pid = p + 1, !.noise = nz,
                                         !.loc[p].arrival_time = now + off,
                                         !.loc[p].delay = off]
  /\ UNCHANGED <<now, running, drv, res, hist>>
  /\ UNCHANGED legacyRest

\* _handle_patient: the wrapper sleeps for the delay when there is one.
HandlePatient(p) ==
  /\ CanRun(J(p), "handle")
  /\ pc' = [pc EXCEPT ![J(p)] = "flow"]
  /\ timer' = [timer EXCEPT ![J(p)] = legacy.loc[p].delay]
  /\ UNCHANGED <<now, running, drv, res, legacy, hist>>
  /\ UNCHANGED legacyRest

\* The bed flip time chosen by process_flow.
BedFlipTimes ==
  IF legacy.override # NoOverride THEN {legacy.override}
  ELSE IF legacy.parallel THEN LegacyTimes("flip_future")
  ELSE LegacyTimes("flip_current")

\* A process_flow that takes its unit without waiting for it.
FlowRequestNoWait(p) ==
  /\ CanRun(J(p), "flow")
  /\ \E tp \in LegacyTimes("prep"), ts \in LegacyTimes("scan"), tf \in BedFlipTimes :
       legacy' = [legacy EXCEPT !.loc[p].state = "Arrived/Waiting",
                                !.loc[p].prep = tp, !.loc[p].scan = ts,
                                !.loc[p].flip = tf]
  /\ res' = [res EXCEPT ![IF legacy.parallel THEN "prep_rooms" ELSE "magnet"].users =
                          @ \cup {J(p)}]
  /\ pc' = [pc EXCEPT ![J(p)] = "wait_prep"]
  /\ UNCHANGED <<now, running, drv, timer, hist>>
  /\ UNCHANGED legacyRest

\* process_flow up to its first yield: the durations are drawn once, then
\* the magnet (serial) or a prep room (parallel) is requested.
FlowRequest(p) ==
  /\ CanRun(J(p), "flow")
  /\ \E tp \in LegacyTimes("prep"), ts \in LegacyTimes("scan"), tf \in BedFlipTimes :
       legacy' = [legacy EXCEPT !.loc[p].state = "Arrived/Waiting",
                                !.loc[p].prep = tp, !.loc[p].scan = ts,
                                !.loc[p].flip = tf]
  /\ res' = Request(res, IF legacy.parallel THEN "prep_rooms" ELSE "magnet", J(p), 0)
  /\ pc' = [pc EXCEPT ![J(p)] = "wait_prep"]
  /\ UNCHANGED <<now, running, drv, timer, hist>>
  /\ UNCHANGED legacyRest

\* The request is granted: prep starts.
FlowPrep(p) ==
  /\ CanRun(J(p), "wait_prep")
  /\ legacy' = [legacy EXCEPT !.loc[p].state = "Prepping", !.loc[p].prep_start = now]
  /\ timer' = [timer EXCEPT ![J(p)] = legacy.loc[p].prep]
  /\ pc' = [pc EXCEPT ![J(p)] = "prep"]
  /\ UNCHANGED <<now, running, drv, res, hist>>
  /\ UNCHANGED legacyRest

\* Prep is over.  Serial: the scan starts, the magnet still held.  Parallel:
\* the prep room is released and the magnet requested.
FlowPrepDone(p) ==
  /\ CanRun(J(p), "prep")
  /\ IF legacy.parallel
     THEN /\ res' = Request(Release(res, "prep_rooms", J(p)), "magnet", J(p), 0)
          /\ legacy' = [legacy EXCEPT !.loc[p].state = "Changed"]
          /\ pc' = [pc EXCEPT ![J(p)] = "wait_magnet"]
          /\ UNCHANGED timer
     ELSE /\ legacy' = [legacy EXCEPT !.loc[p].state = "Scanning",
                                      !.loc[p].scan_start = now]
          /\ timer' = [timer EXCEPT ![J(p)] = legacy.loc[p].scan]
          /\ pc' = [pc EXCEPT ![J(p)] = "scan"]
          /\ UNCHANGED res
  /\ UNCHANGED <<now, running, drv, hist>>
  /\ UNCHANGED legacyRest

\* Parallel: the magnet is granted and the scan starts.
FlowScan(p) ==
  /\ CanRun(J(p), "wait_magnet")
  /\ legacy' = [legacy EXCEPT !.loc[p].state = "Scanning", !.loc[p].scan_start = now]
  /\ timer' = [timer EXCEPT ![J(p)] = legacy.loc[p].scan]
  /\ pc' = [pc EXCEPT ![J(p)] = "scan"]
  /\ UNCHANGED <<now, running, drv, res, hist>>
  /\ UNCHANGED legacyRest

\* A flip that gives the magnet back before it starts: the scan is over and
\* the magnet released at once.
FlowScanDoneEarlyRelease(p) ==
  /\ CanRun(J(p), "scan")
  /\ legacy' = [legacy EXCEPT !.loc[p].state = "Done"]
  /\ timer' = [timer EXCEPT ![J(p)] = legacy.loc[p].flip]
  /\ pc' = [pc EXCEPT ![J(p)] = "flip"]
  /\ res' = Release(res, "magnet", J(p))
  /\ UNCHANGED <<now, running, drv, hist>>
  /\ UNCHANGED legacyRest

\* The scan is over: the bed flip, the magnet still held.
FlowScanDone(p) ==
  /\ CanRun(J(p), "scan")
  /\ legacy' = [legacy EXCEPT !.loc[p].state = "Done"]
  /\ timer' = [timer EXCEPT ![J(p)] = legacy.loc[p].flip]
  /\ pc' = [pc EXCEPT ![J(p)] = "flip"]
  /\ UNCHANGED <<now, running, drv, res, hist>>
  /\ UNCHANGED legacyRest

\* A record that says 'Serial' whatever the mode.
LogRecordSerial(p, par) ==
  [p_id |-> p, arrival_time |-> legacy.loc[p].arrival_time,
   prep_start |-> legacy.loc[p].prep_start, scan_start |-> legacy.loc[p].scan_start,
   exit_time |-> now, scenario |-> "Serial"]

\* The record process_flow appends to log_records.
LogRecord(p, par) ==
  [p_id |-> p, arrival_time |-> legacy.loc[p].arrival_time,
   prep_start |-> legacy.loc[p].prep_start, scan_start |-> legacy.loc[p].scan_start,
   exit_time |-> now, scenario |-> IF par THEN "Parallel" ELSE "Serial"]

\* The flip is over: the magnet is released, the exit time taken and the
\* record appended.
FlowExit(p) ==
  /\ CanRun(J(p), "flip")
  /\ res' = Release(res, "magnet", J(p))
  /\ legacy' = [legacy EXCEPT !.loc[p].state = "Done", !.loc[p].exit_time = now,
                              !.logs = Append(@, LogRecord(p, legacy.parallel))]
  /\ pc' = [pc EXCEPT ![J(p)] = "done"]
  /\ UNCHANGED <<now, running, drv, timer, hist>>
  /\ UNCHANGED legacyRest

\* env.run(until=simulation_hours * 60) returns.
LegacyStop ==
  /\ running
  /\ drv = 0
  /\ running' = FALSE
  /\ UNCHANGED <<now, drv, pc, timer, res, legacy, hist>>
  /\ UNCHANGED legacyRest

LegacyNext ==
  \/ ImportAsWritten
  \/ RunWithConfiguration
  \/ AdvanceTime
  \/ SlotArrival
  \/ \E p \in Patients : HandlePatient(p)
  \/ \E p \in Patients : FlowRequest(p)
  \/ \E p \in Patients : FlowPrep(p)
  \/ \E p \in Patients : FlowPrepDone(p)
  \/ \E p \in Patients : FlowScan(p)
  \/ \E p \in Patients : FlowScanDone(p)
  \/ \E p \in Patients : FlowExit(p)
  \/ LegacyStop

LegacySpec == LegacyInit /\ [][LegacyNext]_vars

\* ------------------------------------------------------------------------
\* Blocking requests of the first engine
\* ------------------------------------------------------------------------
LegacyResources == {"magnet", "prep_rooms"}
Waits(rs, r, q) == \E i \in 1..Len(rs[r].queue) : rs[r].queue[i].who = q

\* The time at which patient p asked for the magnet, and the time at which
\* it got it, as process_flow records them.
AskedMagnet(p) ==
  IF legacy.parallel
  THEN IF legacy.loc[p].prep_start = NoTime \/ pc[J(p)] = "prep" THEN NoTime
       ELSE legacy.loc[p].prep_start + legacy.loc[p].prep
  ELSE IF pc[J(p)] \in {"none", "handle", "flow"} THEN NoTime
       ELSE legacy.loc[p].arrival_time
GotMagnet(p) ==
  IF legacy.parallel THEN legacy.loc[p].scan_start ELSE legacy.loc[p].prep_start
HeldAt(q, t) ==
  /\ GotMagnet(q) # NoTime
  /\ GotMagnet(q) <= t
  /\ legacy.loc[q].exit_time = NoTime \/ t < legacy.loc[q].exit_time

\* A step never grants a unit of a full resource to a process that did not
\* wait, and a waiting process is granted only in a step in which a holder
\* gives its unit back.
GrantSteps ==
  \A r \in LegacyResources : \A p \in Patients :
    /\ (J(p) \notin res[r].users /\ ~Waits(res, r, J(p)) /\ Count(res, r) = Capacity(r))
         => J(p) \notin res'[r].users
    /\ (Waits(res, r, J(p)) /\ J(p) \in res'[r].users)
         => /\ \E h \in res[r].users : h \notin res'[r].users
            /\ now' = now

\* The recorded times: a patient that asked for the magnet while another one
\* held it got it at the exit time of a holder, not earlier.
GrantTimes ==
  \A p \in Patients :
    GotMagnet(p) # NoTime =>
      /\ \A q \in Patients \ {p} :
           HeldAt(q, AskedMagnet(p)) =>
             /\ legacy.loc[q].exit_time # NoTime
             /\ GotMagnet(p) >= legacy.loc[q].exit_time
      /\ GotMagnet(p) > AskedMagnet(p) =>
           \E q \in Patients \ {p} : legacy.loc[q].exit_time = GotMagnet(p)
      /\ GotMagnet(p) >= AskedMagnet(p)

\* C26: a request made while every unit of a resource is held is not granted
\* at request time; it is granted at the virtual time at which a holder
\* releases a unit (A holds the magnet, B asks meanwhile: B gets it at A's
\* release time).
GrantedAtRelease == [][GrantSteps]_vars /\ []GrantTimes

\* B asked while A held the magnet and got it at A's exit time.
WaitedForMagnetWitness ==
  \E a \in Patients, b \in Patients :
    /\ a # b
    /\ GotMagnet(b) # NoTime
    /\ HeldAt(a, AskedMagnet(b))
    /\ AskedMagnet(b) < legacy.loc[a].exit_time
    /\ GotMagnet(b) = legacy.loc[a].exit_time

\* ------------------------------------------------------------------------
\* The IV step of prep
\* ------------------------------------------------------------------------
\* The flag is set only in the IV branch of the prep step.
DifficultOnlyWithIV == \A p \in Patients : pat[p].difficult => pat[p].hasIV

\* C28: difficult IV is a sub-case of needing an IV, and the iv_difficult
\* duration is used for exactly the IV patients flagged difficult, the
\* iv_prep duration for the other IV patients.
DifficultIVGetsLongPrep ==
  \A p \in Patients :
    /\ pat[p].difficult => pat[p].hasIV
    /\ pat[p].hasIV => (pat[p].ivLong <=> pat[p].difficult)

\* A patient flagged difficult whose IV took the iv_prep duration, or one not
\* flagged whose IV took the iv_difficult duration.
FlagAndDurationDifferWitness ==
  \E p \in Patients : pat[p].hasIV /\ pat[p].ivLong # pat[p].difficult

\* ------------------------------------------------------------------------
\* The log of the first engine
\* ------------------------------------------------------------------------
RecordsOf(p) == {i \in 1..Len(legacy.logs) : legacy.logs[i].p_id = p}
Completed(p) == pc[J(p)] = "done"

\* The earliest time at which the first patient can have left.
FirstPatientOut ==
  legacy.loc[1].arrival_time + legacy.loc[1].prep + legacy.loc[1].scan + legacy.loc[1].flip

\* C29: the log holds exactly one record for each patient that completed
\* process_flow and none for the others; each record carries the patient's
\* id and arrival time, prep_start <= scan_start <= exit_time and the
\* scenario of the run's mode; a run that lasted long enough for one patient
\* to arrive and finish returns a non-empty log.
OneRecordPerCompletedPatient ==
  /\ \A p \in Patients :
       Cardinality(RecordsOf(p)) = IF Completed(p) THEN 1 ELSE 0
  /\ \A i \in 1..Len(legacy.logs) :
       LET r == legacy.logs[i]
       IN /\ r.p_id \in Patients
          /\ r.arrival_time = legacy.loc[r.p_id].arrival_time
          /\ r.arrival_time # NoTime
          /\ r.prep_start # NoTime
          /\ r.prep_start <= r.scan_start
          /\ r.scan_start <= r.exit_time
          /\ r.scenario = IF legacy.parallel THEN "Parallel" ELSE "Serial"
  /\ (~running /\ pc[J(1)] \notin {"none", "handle", "flow"} /\ FirstPatientOut < now)
       => legacy.logs # <<>>

\* C29 as stated, for the run of tests/test_simulation.py: a run of two
\* hours, long enough for one patient to arrive and finish, returns a
\* non-empty log.
TestedRunReturnsLog ==
  (~running /\ pc[Gen] # "import" /\ legacy.hours = Minutes(120))
    => legacy.logs # <<>>

\* The program is over at its import of the configuration: no environment,
\* no generator, no record.
EndedAtImport ==
  /\ ~running
  /\ pc[Gen] = "none"
  /\ legacy.hours = Minutes(120)
  /\ legacy.logs = <<>>

\* A parallel run that returned two records while a third patient was still
\* in its flow.
TwoRecordsWitness ==
  /\ ~running
  /\ legacy.parallel
  /\ Len(legacy.logs) >= 2
  /\ \E p \in Patients : pc[J(p)] \in {"prep", "scan", "flip"}

\* ------------------------------------------------------------------------
\* The modular engine: run_generator and PatientWorkflow (core/workflows)
\* under the headless loop of run_simulation (core/engine.py).  The patients
\* are objects of the patient_class handed to run_generator, whose moves
\* take no time.  An action is named after the function in which the
\* process waits and carries the code up to the next yield.  run_simulation
\* as written ends before it has started the generator (ModularNext), so
\* the process actions are steps of no run.
\* ------------------------------------------------------------------------
\* The inputs.  A shift shorter than the generator's margin; a shift
\* with arrivals forty minutes apart; a burst of arrivals one minute apart
\* with a quick registration; in these three the patient class sets
\* clinical_init_done and the clinical attributes itself.  No caller in the
\* sources hands such a class to run_generator (the patients of
\* experiments/batch_efficiency.py set the flag, under a generator of their
\* own).  In the fourth the patients are of the default class
\* HeadlessPatient, which does not set it.  run_simulation passes no
\* patient class, and reads none of this before it fails.
ModularPlans ==
  LET OfClass(pl, done) ==
        [f \in DOMAIN pl \cup {"clinical_init_done"} |->
           IF f = "clinical_init_done" THEN done ELSE pl[f]]
  IN {OfClass([PlanCrowd EXCEPT !.duration = Minutes(50), !.gaps = {Minutes(40)},
                                !.types = [p \in Patients |-> {"outpatient"}]], TRUE),
      OfClass([PlanCrowd EXCEPT !.duration = Minutes(100), !.gaps = {Minutes(40)},
                                !.types = [p \in Patients |->
                                             IF p = 2 THEN {"inpatient"}
                                             ELSE IF p = 3 THEN {"outpatient", "inpatient"}
                                             ELSE {"outpatient"}],
                                !.iv = [p \in Patients |-> BOOLEAN]], TRUE),
      OfClass([PlanCrowd EXCEPT !.duration = Minutes(70), !.gaps = {Minutes(1)},
                                !.types = [p \in Patients |-> {"outpatient"}],
                                !.registration = {Hundredths(240)}], TRUE),
      OfClass([PlanCrowd EXCEPT !.duration = Minutes(100), !.gaps = {Minutes(40)},
                                !.types = [p \in Patients |->
                                             {"outpatient", "inpatient"}]], FALSE)}

UnknownExam == "Unknown"
modularFixed == <<now, running, drv, gen, plan, legacy, hist>>

\* run_simulation has been entered (engine.py 23-32), with config.HEADLESS
\* as the caller has left it: nothing is built, no process exists.
ModularInit ==
  /\ now = 0
  /\ running = FALSE
  /\ \E pl \in ModularPlans, h \in BOOLEAN :
       plan = [f \in DOMAIN pl \cup {"HEADLESS"} |->
                 IF f = "HEADLESS" THEN h ELSE pl[f]]
  /\ drv = 0
  /\ pc = [q \in Procs |-> IF q = Gen THEN "m_build" ELSE "none"]
  /\ timer = [q \in Procs |-> 0]
  /\ res = [r \in ResNames |-> EmptyRes]
  /\ pool = <<>>
  /\ poolWait = <<>>
  /\ mag = [q \in Procs |-> NoMagnet]
  /\ lastExam = [m \in Magnets |-> NoExam]
  /\ pat = [p \in Patients |-> NewPatient]
  /\ stats = InitStats
  /\ mgr = InitMgr
  /\ gen = [pid |-> 0]
  /\ posm = InitPosm
  /\ legacy = NoLegacy
  /\ hist = InitHist

\* engine.py 35-38 with config.HEADLESS False, the default of config.py:
\* RenderEngine is called with video_format, a keyword its constructor
\* does not take, and raises TypeError.  run_simulation ends there.
RendererAsWritten ==
  /\ DriverAt("m_build")
  /\ ~plan.HEADLESS
  /\ pc' = [pc EXCEPT ![Gen] = "none"]
  /\ UNCHANGED <<now, running, drv, timer, res, pool, poolWait, mag, lastExam, pat,
                 stats, mgr, gen, plan, legacy, posm, hist>>

\* engine.py 35-128 with config.HEADLESS True: the mock renderer, the
\* collector, the resources, the two magnets put into the pool, the staff
\* and the StaffManager, whose break cycles are not started.
BuildModularEnvironment ==
  /\ DriverAt("m_build")
  /\ plan.HEADLESS
  /\ pool' = MagnetOrder
  /\ pc' = [pc EXCEPT ![Gen] = "m_call"]
  /\ UNCHANGED <<now, running, drv, timer, res, poolWait, mag, lastExam, pat, stats,
                 mgr, gen, plan, legacy, posm, hist>>

\* engine.py 129 as written: the call passes no_show_prob, a keyword
\* run_generator (patient.py 190) does not take, and raises TypeError.
\* run_simulation ends there: no process is ever created.
RunGeneratorCallAsWritten ==
  /\ DriverAt("m_call")
  /\ pc' = [pc EXCEPT ![Gen] = "none"]
  /\ UNCHANGED <<now, running, drv, timer, res, pool, poolWait, mag, lastExam, pat,
                 stats, mgr, gen, plan, legacy, posm, hist>>

\* The loop condition of run_generator.
GeneratorBreaks(pis, t, duration) ==
  t > duration - Minutes(GeneratorMargin) /\ pis = 0

\* One turn of the loop of run_generator: leave, or create a patient, count
\* it, start its workflow and sleep for the inter-arrival time.  The
\* exploration ends the generator after MaxArrivals patients.
RunGenerator ==
  /\ CanRun(Gen, "m_gen")
  /\ IF GeneratorBreaks(stats.pis, now, Duration)
     THEN /\ pc' = [pc EXCEPT ![Gen] = "done"]
          /\ UNCHANGED <<timer, pat, stats, gen>>
     ELSE LET p == gen.pid + 1
          IN /\ gen' = [gen EXCEPT !.pid = p]
             /\ \E ty \in plan.types[p] :
                  pat' = [pat EXCEPT ![p].ptype = ty]
             /\ stats' = [stats EXCEPT !.pis = @ + 1]
             /\ pc' = [pc EXCEPT ![J(p)] = "m_start",
                                 ![Gen] = IF p < MaxArrivals THEN "m_gen" ELSE "done"]
             /\ \E gap \in plan.gaps :
                  timer' = [timer EXCEPT ![Gen] = gap]
  /\ UNCHANGED <<now, running, drv, res, pool, poolWait, mag, lastExam, mgr, plan,
                 legacy, posm, hist>>

\* PatientWorkflow.run up to the request of the admin desk.  For a patient
\* without clinical_init_done the protocol is chosen from config.SCAN_TYPES,
\* a name config does not have: the AttributeError ends the workflow and
\* env.run passes it on, which ends the run.  Otherwise the patient carries
\* the clinical attributes of its class; an inpatient leaves the workflow at
\* once; an outpatient joins the admin queue as 'arriving'.
WorkflowRun(p) ==
  /\ CanRun(J(p), "m_start")
  /\ IF ~plan.clinical_init_done
     THEN /\ pc' = [pc EXCEPT ![J(p)] = "failed"]
          /\ running' = FALSE
          /\ drv' = 0
          /\ UNCHANGED <<pat, res, stats>>
     ELSE /\ UNCHANGED <<running, drv>>
          /\ \E iv \in plan.iv[p] : \E df \in (IF iv THEN plan.difficult ELSE {FALSE}) :
               pat' = [pat EXCEPT ![p].needs_iv = iv, ![p].is_difficult_iv = df]
          /\ IF pat[p].ptype = "inpatient"
             THEN /\ pc' = [pc EXCEPT ![J(p)] = "done"]
                  /\ UNCHANGED <<res, stats>>
             ELSE /\ stats' = LogStateChange(stats, p, "None", "arriving")
                  /\ res' = Request(res, "admin_ta", J(p), 0)
                  /\ pc' = [pc EXCEPT ![J(p)] = "m_wait_admin"]
  /\ UNCHANGED <<timer, pool, poolWait, mag, lastExam, mgr, posm>>
  /\ UNCHANGED <<now, gen, plan, legacy, hist>>

\* The look for a change room (patient.py 72-77 and 100-106) by patient p
\* from the resources rs: the first free room of the shuffled list is
\* requested; 'none' when every room is taken.
TryChangeRoom(p, rs, found, none) ==
  IF \E r \in ChangeRooms : Count(rs, r) < Capacity(r)
  THEN \E r \in {x \in ChangeRooms : Count(rs, x) < Capacity(x)} :
         /\ res' = Request(rs, r, J(p), 0)
         /\ pat' = [pat EXCEPT ![p].room = r]
         /\ pc' = [pc EXCEPT ![J(p)] = found]
         /\ timer' = timer
  ELSE none

\* AdminWorkflow.perform_registration: the desk is granted and the
\* registration takes its time; then the desk is released and the workflow
\* looks for a change room, or asks for the porter when there is none.
PerformRegistration(p) ==
  /\ \/ /\ CanRun(J(p), "m_wait_admin")
        /\ stats' = LogStateChange(stats, p, "arriving", "registered")
        /\ \E d \in Times("registration") :
             timer' = [timer EXCEPT ![J(p)] = d]
        /\ pc' = [pc EXCEPT ![J(p)] = "m_registering"]
        /\ UNCHANGED <<res, pat>>
     \/ /\ CanRun(J(p), "m_registering")
        /\ LET rs == Release(res, "admin_ta", J(p))
           IN TryChangeRoom(p, rs, "m_wait_room",
                /\ res' = Request(rs, "porter", J(p), PriorityTransport)
                /\ pc' = [pc EXCEPT ![J(p)] = "m_wait_porter"]
                /\ UNCHANGED <<pat, timer>>)
        /\ UNCHANGED stats
  /\ UNCHANGED <<pool, poolWait, mag, lastExam, mgr, posm>>
  /\ UNCHANGED modularFixed

\* The change starts: the state change is logged and the changing time
\* drawn.
StartChanging(p) ==
  /\ stats' = LogStateChange(stats, p, "registered", "changing")
  /\ \E d \in Times("changing") :
       timer' = [timer EXCEPT ![J(p)] = d]
  /\ pc' = [pc EXCEPT ![J(p)] = "m_changing"]

\* The change room requested in PatientWorkflow.run is granted: before the
\* transport the porter is asked for, after it the change starts; the poll
\* of the staging point looks for a room again.
SeizeChangeRoom(p) ==
  /\ \/ /\ CanRun(J(p), "m_wait_room")
        /\ res' = Request(res, "porter", J(p), PriorityTransport)
        /\ pc' = [pc EXCEPT ![J(p)] = "m_wait_porter"]
        /\ UNCHANGED <<timer, pat, stats>>
     \/ /\ CanRun(J(p), "m_wait_staged_room")
        /\ StartChanging(p)
        /\ UNCHANGED <<res, pat>>
     \/ /\ CanRun(J(p), "m_poll_room")
        /\ TryChangeRoom(p, res, "m_wait_staged_room",
             /\ timer' = [timer EXCEPT ![J(p)] = PollStaging]
             /\ UNCHANGED <<res, pat, pc>>)
        /\ UNCHANGED stats
  /\ UNCHANGED <<pool, poolWait, mag, lastExam, mgr, posm>>
  /\ UNCHANGED modularFixed

\* PorterWorkflow.transport: the porter is granted, escorts the patient and
\* is released; the patient starts to change in its room, or looks for a
\* room from the staging point.
Transport(p) ==
  /\ CanRun(J(p), "m_wait_porter")
  /\ LET rs == Release(res, "porter", J(p))
     IN IF pat[p].room # NoRoom
        THEN /\ res' = rs
             /\ StartChanging(p)
             /\ UNCHANGED pat
        ELSE /\ TryChangeRoom(p, rs, "m_wait_staged_room",
                  /\ res' = rs
                  /\ timer' = [timer EXCEPT ![J(p)] = PollStaging]
                  /\ pc' = [pc EXCEPT ![J(p)] = "m_poll_room"]
                  /\ UNCHANGED pat)
             /\ UNCHANGED stats
  /\ UNCHANGED <<pool, poolWait, mag, lastExam, mgr, posm>>
  /\ UNCHANGED modularFixed

\* The change is over: the room is released, a slot on the left of the
\* waiting room taken and a backup tech asked for.  (The locals of the
\* workflow are cleared in the model when the code reads them no more.)
Changing(p) ==
  /\ CanRun(J(p), "m_changing")
  /\ res' = Request(Release(res, pat[p].room, J(p)), "backup_techs", J(p), 1)
  /\ posm' = GetGridPos(posm, "left", p)
  /\ pat' = [pat EXCEPT ![p].wrLeft = FirstFree(posm.left), ![p].room = NoRoom]
  /\ pc' = [pc EXCEPT ![J(p)] = "m_wait_backup"]
  /\ UNCHANGED <<timer, pool, poolWait, mag, lastExam, stats, mgr>>
  /\ UNCHANGED modularFixed

\* The backup tech chosen by prep_patient: the first one that is not busy.
ModularPrepTech == IF ~mgr.backupBusy[0] THEN 0 ELSE IF ~mgr.backupBusy[1] THEN 1 ELSE 0

\* BackupWorkflow.prep_patient: the tech is granted; the IV, with the
\* duration of the patient's difficult-IV flag; the interview; then the tech
\* is released, the patient moves to the right of the waiting room and asks
\* for magnet access.
PrepPatient(p) ==
  /\ \/ /\ CanRun(J(p), "m_wait_backup")
        /\ mgr' = [mgr EXCEPT !.backupBusy[ModularPrepTech] = TRUE]
        /\ IF pat[p].needs_iv
           THEN /\ pat' = [pat EXCEPT ![p].prepTech = ModularPrepTech, ![p].hasIV = TRUE,
                                      ![p].ivLong = pat[p].is_difficult_iv]
                /\ \E d \in Times(IF pat[p].is_difficult_iv THEN "iv_difficult"
                                  ELSE "iv_prep") :
                     timer' = [timer EXCEPT ![J(p)] = d]
                /\ pc' = [pc EXCEPT ![J(p)] = "m_iv"]
           ELSE /\ pat' = [pat EXCEPT ![p].prepTech = ModularPrepTech]
                /\ \E d \in Times("screening") :
                     timer' = [timer EXCEPT ![J(p)] = d]
                /\ pc' = [pc EXCEPT ![J(p)] = "m_screening"]
        /\ UNCHANGED <<res, posm>>
     \/ /\ CanRun(J(p), "m_iv")
        /\ \E d \in Times("screening") :
             timer' = [timer EXCEPT ![J(p)] = d]
        /\ pc' = [pc EXCEPT ![J(p)] = "m_screening"]
        /\ UNCHANGED <<res, pat, mgr, posm>>
     \/ /\ CanRun(J(p), "m_screening")
        /\ mgr' = [mgr EXCEPT !.backupBusy[pat[p].prepTech] = FALSE]
        /\ res' = Request(Release(res, "backup_techs", J(p)), "magnet_access", J(p),
                          PRIORITY_OUTPATIENT)
        /\ LET pm == ReleasePos(posm, "left", pat[p].wrLeft, p)
           IN /\ posm' = GetGridPos(pm, "right", p)
              /\ pat' = [pat EXCEPT ![p].wrRight = FirstFree(pm.right),
                                     ![p].wrLeft = NoSlot, ![p].prepTech = 0]
        /\ pc' = [pc EXCEPT ![J(p)] = "m_wait_access"]
        /\ UNCHANGED timer
  /\ UNCHANGED <<pool, poolWait, mag, lastExam, stats>>
  /\ UNCHANGED modularFixed

\* PatientWorkflow.run, step 9: magnet access is granted, a magnet taken
\* from the pool and its resource requested; when it is granted the slot of
\* the waiting room is released and execute_scan starts with the handover.
ScanEntry(p) ==
  /\ \/ /\ CanRun(J(p), "m_wait_access")
        /\ PoolGet(J(p))
        /\ pc' = [pc EXCEPT ![J(p)] = "m_wait_pool"]
        /\ UNCHANGED <<res, timer, posm, pat>>
     \/ /\ CanRun(J(p), "m_wait_pool")
        /\ res' = Request(res, MagnetRes(mag[J(p)]), J(p), PRIORITY_OUTPATIENT)
        /\ pc' = [pc EXCEPT ![J(p)] = "m_wait_magnet"]
        /\ UNCHANGED <<pool, poolWait, mag, timer, posm, pat>>
     \/ /\ CanRun(J(p), "m_wait_magnet")
        /\ posm' = ReleasePos(posm, "right", pat[p].wrRight, p)
        /\ pat' = [pat EXCEPT ![p].wrRight = NoSlot]
        /\ \E d \in Times("handover") :
             timer' = [timer EXCEPT ![J(p)] = d]
        /\ pc' = [pc EXCEPT ![J(p)] = "m_handover"]
        /\ UNCHANGED <<res, pool, poolWait, mag>>
  /\ UNCHANGED <<lastExam, stats, mgr>>
  /\ UNCHANGED modularFixed

\* ScanWorkflow.execute_scan: handover, set-up, scan and exit; the
\* collector's magnet clock is started after the set-up and stopped after
\* the scan; after the exit the exit process is started and the porter asked
\* for the bed flip.
ExecuteScan(p) ==
  /\ \/ /\ CanRun(J(p), "m_handover")
        /\ stats' = LogStateChange(stats, p, "prepped", "scanning")
        /\ \E d \in Times("scan_setup") :
             timer' = [timer EXCEPT ![J(p)] = d]
        /\ pc' = [pc EXCEPT ![J(p)] = "m_setup"]
        /\ UNCHANGED res
     \/ /\ CanRun(J(p), "m_setup")
        /\ \E d \in Times("scan_duration") :
             timer' = [timer EXCEPT ![J(p)] = d]
        /\ pc' = [pc EXCEPT ![J(p)] = "m_scan"]
        /\ stats' = LogMagnetStart(stats, now, TRUE)
        /\ UNCHANGED res
     \/ /\ CanRun(J(p), "m_scan")
        /\ \E d \in Times("scan_exit") :
             timer' = [timer EXCEPT ![J(p)] = d]
        /\ pc' = [pc EXCEPT ![J(p)] = "m_scan_exit"]
        /\ stats' = LogMagnetEnd(stats, now)
        /\ UNCHANGED res
     \/ /\ CanRun(J(p), "m_scan_exit")
        /\ res' = Request(res, "porter", J(p), PriorityTurnover)
        /\ pc' = [pc EXCEPT ![J(p)] = "m_wait_flip", ![X(p)] = "m_exit"]
        /\ UNCHANGED <<timer, stats>>
  /\ UNCHANGED <<pool, poolWait, mag, lastExam, pat, mgr, posm>>
  /\ UNCHANGED modularFixed

\* PatientWorkflow.exit_process: the patient is recorded as finished.
ExitProcess(p) ==
  /\ CanRun(X(p), "m_exit")
  /\ stats' = LogPatientFinished(stats)
  /\ pc' = [pc EXCEPT ![X(p)] = "done"]
  /\ UNCHANGED <<timer, res, pool, poolWait, mag, lastExam, pat, mgr, posm>>
  /\ UNCHANGED modularFixed

\* PorterWorkflow.clean_room and the end of PatientWorkflow.run: the flip is
\* fast when the magnet's last exam type is the one passed in, which for a
\* HeadlessPatient is 'Unknown'; then the porter, the magnet and the access
\* are released and the magnet put back.
CleanRoom(p) ==
  /\ \/ /\ CanRun(J(p), "m_wait_flip")
        /\ \E d \in Times(IF lastExam[mag[J(p)]] = UnknownExam THEN "bed_flip_fast"
                          ELSE "bed_flip_slow") :
             timer' = [timer EXCEPT ![J(p)] = d]
        /\ pc' = [pc EXCEPT ![J(p)] = "m_flip"]
        /\ UNCHANGED <<res, pool, poolWait, mag, lastExam>>
     \/ /\ CanRun(J(p), "m_flip")
        /\ lastExam' = [lastExam EXCEPT ![mag[J(p)]] = UnknownExam]
        /\ res' = Release(Release(Release(res, "porter", J(p)),
                                  MagnetRes(mag[J(p)]), J(p)),
                          "magnet_access", J(p))
        /\ PoolPut(J(p))
        /\ pc' = [pc EXCEPT ![J(p)] = "m_put"]
        /\ UNCHANGED timer
     \/ /\ CanRun(J(p), "m_put")
        /\ pc' = [pc EXCEPT ![J(p)] = "done"]
        /\ UNCHANGED <<timer, res, pool, poolWait, mag, lastExam>>
  /\ UNCHANGED <<pat, stats, mgr, posm>>
  /\ UNCHANGED modularFixed

\* run_simulation in headless mode: env.run(until=duration), then one
\* minute at a time while patients_in_system is positive, up to 300 minutes
\* after the shift.  run_simulation does not come this far.
ModularDriver ==
  /\ running
  /\ drv = 0
  /\ IF stats.pis > 0 /\ ~(now > Duration + Minutes(OvertimeCap))
     THEN running' = TRUE /\ drv' = Minutes(1)
     ELSE running' = FALSE /\ drv' = 0
  /\ UNCHANGED <<now, pc, timer, res, pool, poolWait, mag, lastExam, pat, stats,
                 mgr, gen, plan, legacy, posm, hist>>

\* What the scheduler would do with the processes of the modular engine.
ModularScheduled ==
  \/ AdvanceTime
  \/ RunGenerator
  \/ \E p \in Patients : WorkflowRun(p)
  \/ \E p \in Patients : PerformRegistration(p)
  \/ \E p \in Patients : SeizeChangeRoom(p)
  \/ \E p \in Patients : Transport(p)
  \/ \E p \in Patients : Changing(p)
  \/ \E p \in Patients : PrepPatient(p)
  \/ \E p \in Patients : ScanEntry(p)
  \/ \E p \in Patients : ExecuteScan(p)
  \/ \E p \in Patients : ExitProcess(p)
  \/ \E p \in Patients : CleanRoom(p)
  \/ ModularDriver

\* run_simulation as written: it ends at its renderer or at its call of
\* the generator, so no step of ModularScheduled is part of it.
ModularNext ==
  \/ RendererAsWritten
  \/ BuildModularEnvironment
  \/ RunGeneratorCallAsWritten

ModularSpec == ModularInit /\ [][ModularNext]_vars

\* ------------------------------------------------------------------------
\* The admission gate of the modular generator
\* ------------------------------------------------------------------------
\* C30: run_generator is an admission gate: once the shift duration has
\* elapsed it creates no further patient, whatever the state of the system
\* at that time.
NoAdmissionAfterShift == [][gen.pid' # gen.pid => now < Duration]_vars

\* A patient created after the end of the shift, its workflow not yet begun.
AdmittedInOvertimeWitness ==
  \E p \in Patients : pc[J(p)] = "m_start" /\ now >= Duration

\* The gate closes only on an empty system: the generator leaves its loop
\* with no patient counted, within the last hour of the shift or later.
GateClosesOnlyWhenEmpty ==
  (pc[Gen] = "done" /\ gen.pid < MaxArrivals) =>
    (stats.pis = 0 /\ gen.pid = 0 /\ now > Duration - Minutes(GeneratorMargin))

\* ------------------------------------------------------------------------
\* The population counter of the modular engine
\* ------------------------------------------------------------------------
CreatedByGenerator == 1..gen.pid
WorkflowEnded(p) == pc[J(p)] = "done" /\ pc[X(p)] \in {"none", "done"}

\* C31: under run_generator and PatientWorkflow.run patients_in_system is
\* raised once for each created patient and lowered once when its workflow
\* ends: it is the number of created patients whose workflow has not ended,
\* and 0 once every workflow has ended (inpatients included).
PisCountsLiveWorkflows ==
  stats.pis = Cardinality({p \in CreatedByGenerator : ~WorkflowEnded(p)})

\* Every workflow the generator started has ended, one of them an
\* inpatient's, and patients_in_system is still positive.
EndedButCountedWitness ==
  /\ gen.pid > 0
  /\ \A p \in CreatedByGenerator : WorkflowEnded(p)
  /\ \E p \in CreatedByGenerator : pat[p].ptype = "inpatient"
  /\ \E p \in CreatedByGenerator : pat[p].ptype = "outpatient"
  /\ stats.pis > 0

\* What the counter is under this engine: one for each created patient and
\* one more for each outpatient that joined the admin queue.
PisOnlyGrows ==
  stats.pis = gen.pid + Cardinality({p \in CreatedByGenerator :
                                       pat[p].ptype = "outpatient"
                                       /\ pc[J(p)] \notin {"m_start", "failed"}})

\* ------------------------------------------------------------------------
\* Serial mode of the first engine
\* ------------------------------------------------------------------------
\* The interval of patient p in the magnet room: from prep_start to
\* exit_time, open while the patient has not left.
InMagnetRoom(p) == legacy.loc[p].prep_start # NoTime /\ legacy.loc[p].exit_time = NoTime
IntervalsApart(p, q) ==
  \/ legacy.loc[p].prep_start = NoTime
  \/ legacy.loc[q].prep_start = NoTime
  \/ (legacy.loc[p].exit_time # NoTime
      /\ legacy.loc[p].exit_time <= legacy.loc[q].prep_start)
  \/ (legacy.loc[q].exit_time # NoTime
      /\ legacy.loc[q].exit_time <= legacy.loc[p].prep_start)

\* C32: in serial mode a patient holds the one magnet from the start of prep
\* through scan and bed flip, and the intervals [prep_start, exit_time] of
\* different patients do not overlap.
SerialHoldsMagnetThroughout ==
  ~legacy.parallel =>
    /\ \A p \in Patients :
         pc[J(p)] \in {"prep", "scan", "flip"} => J(p) \in res["magnet"].users
    /\ \A p \in Patients : InMagnetRoom(p) => J(p) \in res["magnet"].users
    /\ \A p \in Patients :
         J(p) \in res["magnet"].users => pc[J(p)] \in {"wait_prep", "prep", "scan", "flip"}
    /\ \A p \in Patients : \A q \in Patients \ {p} : IntervalsApart(p, q)

\* A serial run in which one patient has left, the next is in its bed flip
\* and a third waits for the magnet.
SerialQueueWitness ==
  /\ ~legacy.parallel
  /\ \E p \in Patients : legacy.loc[p].exit_time # NoTime
  /\ \E p \in Patients : pc[J(p)] = "flip"
  /\ \E p \in Patients : Waits(res, "magnet", J(p))

\* ------------------------------------------------------------------------
\* The backup tech at work
\* ------------------------------------------------------------------------
BackupStaff(i) == CHOOSE s \in Staff : StaffRole(s) = "backup" /\ StaffIdx(s) = i

\* Backup tech i is on its own break.
BackupOnBreak(i) == mgr.onBreak[BackupStaff(i)]

\* Backup tech i is locked by the coordinator at a scan station: from the
\* lock after the seizure to the unlock of the hand-back.
BackupLocked(i) ==
  \E s \in Staff : /\ StaffRole(s) = "scan"
                   /\ CoverTech(StaffIdx(s)) = i
                   /\ pc[B(s)] \in {"handover", "break", "handback"}

\* Patient p is with the backup tech it was assigned: escorted to a change
\* room or in prep.
WithBackupTech(p) == pc[J(p)] \in {"backup_escort", "iv", "screening"}

\* C33: the backup tech assigned to prep or escort a patient is never one
\* who is on break or locked to cover a scan station.
AssignedBackupIsFree ==
  \A p \in Patients :
    WithBackupTech(p) =>
      ~BackupOnBreak(pat[p].prepTech) /\ ~BackupLocked(pat[p].prepTech)

\* A patient in prep with a backup tech who is on break.
PrepByTechOnBreakWitness ==
  \E p \in Patients :
    /\ pc[J(p)] \in {"iv", "screening"}
    /\ BackupOnBreak(pat[p].prepTech)
    /\ B(BackupStaff(pat[p].prepTech)) \in res["backup_techs"].users

\* A patient in prep with a backup tech who is locked at a scan station.
PrepByCoveringTech ==
  \E p \in Patients : WithBackupTech(p) /\ BackupLocked(pat[p].prepTech)

\* ------------------------------------------------------------------------
\* The porter on break
\* ------------------------------------------------------------------------
PorterOnBreak == \E s \in Staff : StaffRole(s) = "porter" /\ mgr.onBreak[s]

\* The patients whose transport, inpatient escort or bed turnover holds the
\* porter.
PorterTasks == {p \in Patients : J(p) \in res["porter"].users}

\* C34: while staff_on_break['porter_0'] is true no porter request of a
\* patient (transport, bed turnover, inpatient escort) is in progress, and
\* none is granted.
PorterOnBreakDoesNothing ==
  /\ PorterOnBreak => PorterTasks = {}
  /\ [][PorterOnBreak => PorterTasks' \subseteq PorterTasks]_vars

\* The porter is on break and a patient's porter request is being served.
PorterWorksOnBreakWitness ==
  /\ PorterOnBreak
  /\ \E p \in PorterTasks : pc[J(p)] \in {"porter_escort", "flip"}

\* ------------------------------------------------------------------------
\* The state the overtime loop stops in
\* ------------------------------------------------------------------------
\* The overtime loop has stopped on patients_in_system = 0, below its limit.
StoppedOnEmpty ==
  ~running /\ stats.pis = 0 /\ now < Duration + Minutes(OvertimeCap)

TurnoverInProgress ==
  \E p \in Patients : pc[J(p)] \in {"wait_flip", "clear_poll", "flip"}

NoShowHoldInProgress ==
  \E p \in Patients : pc[G(p)] \in {"wait_access", "wait_pool", "idle"}

\* C35: when the overtime loop stops because patients_in_system is 0, no bed
\* turnover and no no-show hold is in progress, both magnets are in the pool
\* and no patient task holds the porter.
DrainedWhenStopped ==
  StoppedOnEmpty =>
    /\ ~TurnoverInProgress
    /\ ~NoShowHoldInProgress
    /\ \A m \in Magnets : InPool(m) = 1
    /\ PorterTasks = {}

\* The loop has stopped on an empty department while a bed turnover keeps
\* its magnet out of the pool and waits for the porter, who covers the admin
\* desk.
StoppedDuringTurnoverWitness ==
  /\ StoppedOnEmpty
  /\ mgr.covering
  /\ \E p \in Patients :
       /\ pc[J(p)] = "wait_flip"
       /\ WaitsForPorter(J(p), PriorityTurnover)
       /\ InPool(mag[J(p)]) = 0

\* The loop has stopped on an empty department while a no-show hold keeps a
\* magnet out of the pool.
StoppedDuringNoShowHold ==
  StoppedOnEmpty /\ \E p \in Patients : pc[G(p)] = "idle" /\ InPool(mag[G(p)]) = 0

\* ------------------------------------------------------------------------
\* The population the gatekeeper sees
\* ------------------------------------------------------------------------
\* The patients whose journey the generator has started and that have not
\* reached 'exited'.
InDepartment == {p \in hist.created : ~Exited(p)}

\* C36: at every gatekeeper tick patients_in_system counts every patient the
\* generator has created and that has not exited, late patients in their
\* lateness delay included.
GatekeeperCountsCreated ==
  [][GeneratorTick => stats.pis = Cardinality(InDepartment)]_vars

\* The gatekeeper is about to decide while a late patient waits out its
\* delay.
TickDuringLatenessWitness ==
  /\ CanRun(Gen, "tick")
  /\ \E p \in InDepartment : pc[J(p)] = "late"

\* What the counter is at every step of the generator: the patients that
\* have logged 'arriving' and have not exited.
GatekeeperCountsArrived ==
  [][GeneratorTick => stats.pis = Cardinality(InDepartment \cap Arrived)]_vars

\* ------------------------------------------------------------------------
\* The protocol a magnet in the pool remembers
\* ------------------------------------------------------------------------
\* The patient most recently scanned on magnet m, 0 when there is none.
LastScanned(m) ==
  IF hist.scanStart[m] = <<>> THEN 0 ELSE hist.scanStart[m][Len(hist.scanStart[m])]

\* The protocol of the most recent scan on m, None before the first scan.
LastScannedExam(m) == IF LastScanned(m) = 0 THEN NoExam ELSE pat[LastScanned(m)].exam

\* C37: whenever a magnet is in the pool its last_exam_type is the protocol
\* of the patient most recently scanned on it, outpatient or inpatient, and
\* None when no patient has been scanned on it.
PoolProtocolIsLastScanned ==
  \A m \in Magnets : InPool(m) = 1 => lastExam[m] = LastScannedExam(m)

\* A magnet is back in the pool after the scan of an inpatient, and its
\* last_exam_type is not that inpatient's protocol.
StaleProtocolAfterInpatientWitness ==
  \E m \in Magnets :
    /\ InPool(m) = 1
    /\ LastScanned(m) # 0
    /\ pat[LastScanned(m)].ptype = "inpatient"
    /\ lastExam[m] # pat[LastScanned(m)].exam

\* What holds: a magnet in the pool remembers the protocol of the most
\* recent outpatient scanned on it.
LastOutpatient(m) ==
  LET S == {i \in 1..Len(hist.scanStart[m]) :
              pat[hist.scanStart[m][i]].ptype = "outpatient"}
  IN IF S = {} THEN 0 ELSE hist.scanStart[m][CHOOSE i \in S : \A j \in S : j <= i]

PoolProtocolIsLastOutpatient ==
  \A m \in Magnets :
    InPool(m) = 1 =>
      lastExam[m] = IF LastOutpatient(m) = 0 THEN NoExam
                    ELSE pat[LastOutpatient(m)].exam

\* ------------------------------------------------------------------------
\* From the access slot to the magnet
\* ------------------------------------------------------------------------
\* The processes that take a magnet: journeys and no-show holds.
MagnetClients == {J(p) : p \in Patients} \cup {G(p) : p \in Patients}

\* q holds a magnet_access slot and does not yet hold the resource of a
\* magnet.
BetweenAccessAndMagnet(q) ==
  \/ pc[q] = "wait_access" /\ q \in res["magnet_access"].users
  \/ pc[q] = "wait_pool" /\ q \notin {G(p) : p \in Patients}
  \/ pc[q] = "wait_magnet" /\ q \notin res[MagnetRes(mag[q])].users

\* C38: a process that has been granted a magnet_access slot obtains a
\* magnet without virtual time advancing: magnet_pool.get never waits for a
\* later put, the request on the magnet's own resource is granted at once,
\* and the per-magnet resources never have a waiting queue.
MagnetFollowsAccess ==
  /\ [](poolWait = <<>>)
  /\ [](\A m \in Magnets : QueueLen(res, MagnetRes(m)) = 0)
  /\ [](\A q \in MagnetClients : pc[q] = "wait_pool" => mag[q] # NoMagnet)
  /\ [][now' # now => \A q \in MagnetClients : ~BetweenAccessAndMagnet(q)]_vars

\* A process that waited for its access slot holds a magnet's resource in
\* the instant the slot was granted, with the pool now empty.
AccessAfterWaitWitness ==
  \E q \in MagnetClients :
    /\ pc[q] = "wait_magnet"
    /\ q \in res[MagnetRes(mag[q])].users
    /\ hist.accessAt[q] >= 0
    /\ hist.accessAt[q] < now
    /\ pool = <<>>

\* ------------------------------------------------------------------------
\* Room 311 over the whole inpatient workflow
\* ------------------------------------------------------------------------
\* The inpatients between the holding prep and the return of their magnet.
InpatientsInside ==
  {p \in Patients :
     /\ pat[p].ptype = "inpatient"
     /\ pc[J(p)] \in {"holding", "wait_access", "wait_pool", "wait_magnet",
                      "transfer", "inpatient_scan", "wait_egress", "put"}}

\* A step in which p gives its Room 311 unit back.
Leaves311(p) ==
  J(p) \in res["room_311"].users /\ J(p) \notin res'["room_311"].users

\* C39: an inpatient holds its Room 311 unit from entering the holding room
\* until after its magnet is back in the pool; at most ROOM_311_CAPACITY
\* inpatients are between holding prep and exit, and a further inpatient has
\* not asked for magnet access while it waits for the room.
Room311HeldThroughout ==
  /\ [](\A p \in InpatientsInside : J(p) \in res["room_311"].users)
  /\ [](Cardinality(InpatientsInside) <= Capacity("room_311"))
  /\ [](\A p \in Patients :
          pc[J(p)] = "wait_311" /\ J(p) \notin res["room_311"].users
            => /\ hist.accessAt[J(p)] < 0
               /\ Count(res, "room_311") = Capacity("room_311"))
  /\ [][\A p \in Patients :
          Leaves311(p) => /\ pc[J(p)] = "put"
                          /\ mag[J(p)] = NoMagnet
                          /\ "exited" = hist.trace[p][Len(hist.trace[p])]]_vars

\* Two inpatients are inside, one of them in the magnet room, and a third
\* waits for Room 311.
Room311FullWitness ==
  /\ Cardinality(InpatientsInside) = Capacity("room_311")
  /\ \E p \in InpatientsInside : pc[J(p)] = "inpatient_scan"
  /\ QueueLen(res, "room_311") > 0

\* ------------------------------------------------------------------------
\* The collector's magnet times
\* ------------------------------------------------------------------------
BusyIsScanSum == stats.magnet_busy_time = hist.scanSum

OccupiedIsPhaseSum == stats.magnet_occupied_time = hist.phaseSum

\* C40: whatever the interleaving of the two magnets' log_magnet_start and
\* log_magnet_end calls, magnet_busy_time is the sum of the durations of the
\* completed scan phases on both magnets and magnet_occupied_time the sum of
\* the durations of the completed setup, scan and exit phases.
MagnetTimesAreSums == BusyIsScanSum /\ OccupiedIsPhaseSum

\* Two patients have been scanned, have left their magnets and the
\* department, and the busy time is less than the sum of the scans.
ScanTimeLostWitness ==
  /\ \E p, q \in Patients :
       /\ p # q
       /\ pc[J(p)] = "done" /\ pc[J(q)] = "done"
       /\ hist.scanStart["3T"] # <<>> /\ hist.scanStart["1.5T"] # <<>>
  /\ stats.magnet_start_time = NoTime
  /\ hist.scanSum > 0
  /\ stats.magnet_busy_time < hist.scanSum

\* The occupied time is never less than the busy time.
OccupiedAtLeastBusy == stats.magnet_occupied_time >= stats.magnet_busy_time
====
